---- MODULE Spec2Model ----
(***************************************************************************)
(* Model of the sample storage of valkey-timeseries: one TimeSeries with   *)
(* its list of Gorilla chunks (src/series/time_series.rs and               *)
(* src/series/chunks/gorilla/gorilla_chunk.rs).                            *)
(*                                                                         *)
(* A chunk is the sequence of samples its encoder holds together with its  *)
(* max_size.  Sizes are counted in samples: a chunk whose encoded buffer   *)
(* has reached max_size is one that holds max_size samples.                *)
(***************************************************************************)
EXTENDS Integers, Sequences, FiniteSets, TLC

\* ---------------------------------------------------------------- bounds
MaxTs == 3
MaxValue == 3
MaxBatch == 2
MaxSamples == 3
ChunkSize == 2

Retention == 2

Timestamps == 1..MaxTs

\* ------------------------------------------------------------- constants
DEFAULT_CHUNK_SIZE_BYTES == 64
UsizeModulus == 1048576

Policies == {"Block", "KeepFirst", "KeepLast", "Min", "Max", "Sum"}

\* ------------------------------------------------------------- utilities
Sample(t, v) == [timestamp |-> t, value |-> v]

Min2(a, b) == IF a <= b THEN a ELSE b
Max2(a, b) == IF a >= b THEN a ELSE b

RECURSIVE SumSeq(_)
SumSeq(q) == IF q = <<>> THEN 0 ELSE Head(q) + SumSeq(Tail(q))

RECURSIVE Flatten(_)
Flatten(q) == IF q = <<>> THEN <<>> ELSE Head(q) \o Flatten(Tail(q))

InsertAt(q, i, e) == SubSeq(q, 1, i - 1) \o <<e>> \o SubSeq(q, i, Len(q))

\* Body applied to the value of v, v being evaluated once
Bind(v, Body(_)) == CHOOSE r \in { Body(x) : x \in {v} } : TRUE

\* ------------------------------------------------------------ GorillaChunk
NewChunk(ms) == [samples |-> <<>>, max_size |-> ms]

Chunk_len(c) == Len(c.samples)
Chunk_is_empty(c) == Chunk_len(c) = 0
Chunk_first_timestamp(c) == IF c.samples = <<>> THEN 0 ELSE c.samples[1].timestamp
Chunk_last_timestamp(c) == IF c.samples = <<>> THEN 0 ELSE c.samples[Len(c.samples)].timestamp
Chunk_last_sample(c) == IF c.samples = <<>> THEN <<>> ELSE <<c.samples[Len(c.samples)]>>

is_full(c) == Chunk_len(c) >= c.max_size

should_split(c) == Chunk_len(c) >= c.max_size

is_timestamp_in_range(c, ts) ==
    ts >= Chunk_first_timestamp(c) /\ ts <= Chunk_last_timestamp(c)

is_contained_by_range(c, start, end) ==
    Chunk_first_timestamp(c) >= start /\ Chunk_last_timestamp(c) <= end

\* encoder.add_sample fails when the timestamp goes backwards
push_ok(c, s) == Chunk_is_empty(c) \/ s.timestamp >= Chunk_last_timestamp(c)

push_sample(c, s) == [c EXCEPT !.samples = Append(@, s)]

\* "Ok" | "CapacityFull" | "Error"
Chunk_add_sample(c, s) ==
    IF is_full(c) THEN [chunk |-> c, err |-> "CapacityFull"]
    ELSE IF ~push_ok(c, s) THEN [chunk |-> c, err |-> "Error"]
    ELSE [chunk |-> push_sample(c, s), err |-> "Ok"]

InRange(s, start, end) == s.timestamp >= start /\ s.timestamp <= end

Chunk_get_range(c, start, end) ==
    LET T(s) == InRange(s, start, end) IN SelectSeq(c.samples, T)

Chunk_remove_range(c, start, end) ==
    IF Chunk_is_empty(c) \/ start > Chunk_last_timestamp(c) \/ end < Chunk_first_timestamp(c)
    THEN [chunk |-> c, count |-> 0]
    ELSE LET T(s) == ~InRange(s, start, end)
             kept == SelectSeq(c.samples, T)
         IN [chunk |-> [c EXCEPT !.samples = kept], count |-> Chunk_len(c) - Len(kept)]

Chunk_clear(c) == [c EXCEPT !.samples = <<>>]

Chunk_split(c) ==
    IF Chunk_is_empty(c) THEN [left |-> c, right |-> c]
    ELSE LET mid == Chunk_len(c) \div 2
         IN [left  |-> [c EXCEPT !.samples = SubSeq(c.samples, 1, mid)],
             right |-> [samples |-> SubSeq(c.samples, mid + 1, Chunk_len(c)),
                        max_size |-> DEFAULT_CHUNK_SIZE_BYTES]]

\* DuplicatePolicy::duplicate_value; Block is the DuplicateSample error
duplicate_value(dp, old, new) ==
    CASE dp = "Block"     -> [err |-> TRUE,  value |-> old]
      [] dp = "KeepFirst" -> [err |-> FALSE, value |-> old]
      [] dp = "KeepLast"  -> [err |-> FALSE, value |-> new]
      [] dp = "Min"       -> [err |-> FALSE, value |-> Min2(old, new)]
      [] dp = "Max"       -> [err |-> FALSE, value |-> Max2(old, new)]
      [] dp = "Sum"       -> [err |-> FALSE, value |-> old + new]

\* index of the first held sample with timestamp >= ts, Len+1 when none
FirstGe(q, ts) ==
    IF \E i \in 1..Len(q) : q[i].timestamp >= ts
    THEN CHOOSE i \in 1..Len(q) :
            /\ q[i].timestamp >= ts
            /\ \A j \in 1..(i - 1) : q[j].timestamp < ts
    ELSE Len(q) + 1

\* GorillaChunk::upsert_sample: [chunk, size, err], err in {"Ok","Duplicate","CapacityFull"}
Chunk_upsert_sample(c, sample, dp) ==
    LET ts == sample.timestamp
        q == c.samples
        count == Len(q)
    IN
    IF count = 0 THEN
        LET r == Chunk_add_sample(c, sample)
        IN [chunk |-> r.chunk, size |-> IF r.err = "Ok" THEN 1 ELSE 0, err |-> r.err]
    ELSE IF ts < Chunk_first_timestamp(c) THEN
        [chunk |-> [c EXCEPT !.samples = <<sample>> \o q], size |-> count + 1, err |-> "Ok"]
    ELSE
        LET k == FirstGe(q, ts)
        IN
        IF k > count THEN
            \* every held sample is older: the loop ran out, the sample is appended
            [chunk |-> [c EXCEPT !.samples = Append(q, sample)], size |-> count + 1, err |-> "Ok"]
        ELSE IF q[k].timestamp = ts THEN
            \* collision: the merged sample is written, then iter.next() is called
            LET dv == duplicate_value(dp, q[k].value, sample.value)
            IN
            IF dv.err THEN [chunk |-> c, size |-> 0, err |-> "Duplicate"]
            ELSE [chunk |-> [c EXCEPT !.samples =
                                SubSeq(q, 1, k - 1) \o <<Sample(ts, dv.value)>>
                                \o SubSeq(q, k + 2, count)],
                  size |-> count, err |-> "Ok"]
        ELSE
            \* the sample that ended the loop was taken from the iterator
            [chunk |-> [c EXCEPT !.samples =
                            SubSeq(q, 1, k - 1) \o <<sample>> \o SubSeq(q, k + 1, count)],
             size |-> count + 1, err |-> "Ok"]

\* TimeSeriesChunk::upsert: the chunk, its new count and the result tag
Chunk_upsert(c, sample, dp) ==
    LET r == Chunk_upsert_sample(c, sample, dp)
    IN [chunk |-> r.chunk, size |-> r.size,
        res |-> CASE r.err = "Ok" -> "Ok"
                  [] r.err = "Duplicate" -> "Duplicate"
                  [] OTHER -> "Error"]

\* -------------------------------------------------------------- TimeSeries
VARIABLES chunks, total_samples, first_timestamp, last_sample,
          chunk_size_bytes, retention, policy, panicked, op

\* the keyspace of every DB, the per-DB label indexes, the id counter, the
\* cursors of the stale sweep, the locks and the position of every thread;
\* marked, dumps and ev record what has happened (ids marked stale and not
\* indexed since, the payloads dumped or loaded, the last index operation)
VARIABLES keyspace, TIMESERIES_INDEX, TIMESERIES_ID, INDEX_CURSORS,
          ctx_lock, inner_lock, pc, marked, dumps, ev

\* the series a multi-series query selects, in the order series_by_matchers
\* yields them; no operation on the series above or on the index changes it
VARIABLE series_metas

\* the background tasks: the tick counter of the cron hook and its interval,
\* the handlers registered under each number of ticks, the shutdown flag, the
\* per-DB cursors of the retention trim and of the index optimizer and the DB
\* the trim is at; spawned is the set of handlers the worker pool has been
\* given and has not started yet, locals the local variables of every thread
VARIABLES CRON_TICKS, CRON_INTERVAL_MS, DISPATCH_MAP, SHUTTING_DOWN,
          SERIES_TRIM_CURSORS, OPTIMIZE_CURSORS, CURRENT_DB, spawned, locals

cron_vars == <<CRON_TICKS, CRON_INTERVAL_MS, DISPATCH_MAP, SHUTTING_DOWN,
               SERIES_TRIM_CURSORS, OPTIMIZE_CURSORS, CURRENT_DB, spawned>>

task_vars == <<cron_vars, locals>>

series_vars == <<chunks, total_samples, first_timestamp, last_sample,
                 chunk_size_bytes, retention, policy, panicked, op, series_metas,
                 task_vars>>

index_vars == <<keyspace, TIMESERIES_INDEX, TIMESERIES_ID, INDEX_CURSORS,
                ctx_lock, inner_lock, pc, marked, dumps, ev, series_metas, task_vars>>

vars == <<chunks, total_samples, first_timestamp, last_sample,
          chunk_size_bytes, retention, policy, panicked, op,
          keyspace, TIMESERIES_INDEX, TIMESERIES_ID, INDEX_CURSORS,
          ctx_lock, inner_lock, pc, marked, dumps, ev, series_metas,
          CRON_TICKS, CRON_INTERVAL_MS, DISPATCH_MAP, SHUTTING_DOWN,
          SERIES_TRIM_CURSORS, OPTIMIZE_CURSORS, CURRENT_DB, spawned, locals>>

\* the series as a value, so that one operation can be applied to the
\* result of another
Series == [chunks |-> chunks, total_samples |-> total_samples,
           first_timestamp |-> first_timestamp, last_sample |-> last_sample]

Result(tag, ts) == [tag |-> tag, ts |-> ts]

Outcome(S, res) == [s |-> S, res |-> res, panic |-> FALSE]
PanicOutcome(S) == [s |-> S, res |-> Result("Panic", 0), panic |-> TRUE]

\* usize subtraction: wraps without overflow checks, panics with them
USub(a, b) == IF a >= b THEN a - b ELSE a - b + UsizeModulus
UAdd(a, b) == (a + b) % UsizeModulus

Series_is_empty(S) == S.total_samples = 0

last_timestamp(S) == IF S.last_sample = <<>> THEN 0 ELSE S.last_sample[1].timestamp

get_min_timestamp(S) ==
    IF retention = 0 THEN S.first_timestamp
    ELSE IF S.last_sample = <<>> THEN 0
    ELSE Max2(S.last_sample[1].timestamp - retention, 0)

is_older_than_retention(S, ts) ==
    IF retention = 0 THEN FALSE ELSE ts < get_min_timestamp(S)

update_last_sample(S) ==
    [S EXCEPT !.last_sample =
        IF S.chunks = <<>> THEN <<>> ELSE Chunk_last_sample(S.chunks[Len(S.chunks)])]

update_first_last_timestamps(S) ==
    [S EXCEPT !.first_timestamp =
                IF S.chunks = <<>> THEN 0 ELSE Chunk_first_timestamp(S.chunks[1]),
              !.last_sample =
                IF S.chunks = <<>> THEN <<>> ELSE Chunk_last_sample(S.chunks[Len(S.chunks)])]

update_after_sample_add(S, sample) ==
    [S EXCEPT !.first_timestamp = IF Series_is_empty(S) THEN sample.timestamp ELSE @,
              !.last_sample = <<sample>>,
              !.total_samples = UAdd(@, 1)]

ChunkLens(cs) == [i \in 1..Len(cs) |-> Chunk_len(cs[i])]

\* TimeSeries::trim: [s, deleted, underflow]
trim(S) ==
    LET min_timestamp == get_min_timestamp(S)
    IN
    IF S.first_timestamp = min_timestamp THEN [s |-> S, deleted |-> 0, underflow |-> FALSE]
    ELSE
        LET Keep(c) == Chunk_last_timestamp(c) > min_timestamp
            Drop(c) == ~Keep(c)
            kept == SelectSeq(S.chunks, Keep)
            dropped == SumSeq(ChunkLens(SelectSeq(S.chunks, Drop)))
            partial == kept # <<>> /\ Chunk_first_timestamp(kept[1]) < min_timestamp
            rr == Chunk_remove_range(kept[1], 0, min_timestamp)
            kept2 == IF partial THEN [kept EXCEPT ![1] = rr.chunk] ELSE kept
            deleted_count == dropped + (IF partial THEN rr.count ELSE 0)
            S1 == [S EXCEPT !.chunks = kept2,
                            !.total_samples = USub(@, deleted_count)]
        IN [s |-> IF deleted_count > 0 THEN update_first_last_timestamps(S1) ELSE S1,
            deleted |-> deleted_count,
            underflow |-> deleted_count > S.total_samples]

\* get_chunk_index, at most 16 chunks: the first chunk whose range holds the
\* timestamp, Len+1 when there is none
get_chunk_index(cs, ts) ==
    IF \E i \in 1..Len(cs) : is_timestamp_in_range(cs[i], ts)
    THEN CHOOSE i \in 1..Len(cs) :
            /\ is_timestamp_in_range(cs[i], ts)
            /\ \A j \in 1..(i - 1) : ~is_timestamp_in_range(cs[j], ts)
    ELSE Len(cs) + 1

\* slice::partition_point(|c| c.first_timestamp() <= t), as 1-based insert
\* positions: where the slice is partitioned there is one such position,
\* where it is not the result is unspecified and any boundary may come back
partition_points(cs, t) ==
    { i \in 1..(Len(cs) + 1) :
        /\ (i > 1 => Chunk_first_timestamp(cs[i - 1]) <= t)
        /\ (i <= Len(cs) => ~(Chunk_first_timestamp(cs[i]) <= t)) }

\* TimeSeries::upsert_sample: the set of outcomes
upsert_sample(S, sample, dp) ==
    LET ts == sample.timestamp
        chunks_len == Len(S.chunks)
        at_front == ts <= S.first_timestamp
        pos == IF at_front THEN 1 ELSE get_chunk_index(S.chunks, ts)
        is_last == pos = chunks_len
    IN
    IF at_front /\ is_older_than_retention(S, ts) THEN {Outcome(S, Result("TooOld", 0))}
    ELSE IF pos > chunks_len THEN {PanicOutcome(S)}
    ELSE
        LET chunk == S.chunks[pos]
        IN
        IF ~should_split(chunk) THEN
            LET u == Chunk_upsert(chunk, sample, dp)
                S1 == [S EXCEPT !.chunks[pos] = u.chunk,
                                !.total_samples = UAdd(@, u.size - Chunk_len(chunk))]
                S2 == IF is_last THEN update_last_sample(S1) ELSE S1
                S3 == [S2 EXCEPT !.first_timestamp = Min2(ts, @)]
            IN IF u.res = "Ok" THEN {Outcome(S3, Result("Ok", ts))}
               ELSE {Outcome(S, Result(u.res, 0))}
        ELSE
            LET sp == Chunk_split(chunk)
                Sl == [S EXCEPT !.chunks[pos] = sp.left]
                u == Chunk_upsert(sp.right, sample, dp)
                t == trim(Sl)
                Done(S0, at) ==
                    LET S1 == [S0 EXCEPT !.chunks = InsertAt(@, at, u.chunk),
                                         !.total_samples = UAdd(@, u.size)]
                        S2 == IF is_last THEN update_last_sample(S1) ELSE S1
                    IN [S2 EXCEPT !.first_timestamp = Min2(ts, @)]
            IN
            IF u.res # "Ok" THEN {Outcome(Sl, Result(u.res, 0))}
            ELSE { Outcome(Done(t.s, at), Result("Ok", ts)) :
                      at \in partition_points(t.s.chunks, Chunk_first_timestamp(u.chunk)) }
                 \cup (IF t.underflow THEN {PanicOutcome(S)} ELSE {})

create_chunk == NewChunk(chunk_size_bytes)

\* add_sample_internal with handle_full_chunk and add_chunk_with_sample
add_sample_internal(S, sample) ==
    LET cs == IF S.chunks = <<>> THEN <<create_chunk>> ELSE S.chunks
        n == Len(cs)
        r == Chunk_add_sample(cs[n], sample)
        S0 == [S EXCEPT !.chunks = cs]
    IN
    CASE r.err = "Ok" ->
            Outcome(update_after_sample_add([S0 EXCEPT !.chunks[n] = r.chunk], sample),
                    Result("Ok", sample.timestamp))
      [] r.err = "CapacityFull" ->
            LET nr == Chunk_add_sample(create_chunk, sample)
            IN IF nr.err = "Ok"
               THEN Outcome(update_after_sample_add(
                                [S0 EXCEPT !.chunks = Append(@, nr.chunk)], sample),
                            Result("Ok", sample.timestamp))
               ELSE Outcome(S0, Result("Error", 0))
      [] OTHER -> Outcome(S0, Result("Error", 0))

\* TimeSeries::add (no rounding strategy, no duplicate tolerance configured)
add(S, ts, value, dp) ==
    LET sample == Sample(ts, value)
    IN IF S.last_sample # <<>> /\ ts <= S.last_sample[1].timestamp
       THEN upsert_sample(S, sample, dp)
       ELSE {add_sample_internal(S, sample)}

\* ------------------------------------------------------------ merge_samples
\* the fast path of GorillaChunk::merge_samples: samples appended one by one;
\* CapacityFull ends the call with an error, any other failure is a result
RECURSIVE append_all(_, _, _)
append_all(c, samples, res) ==
    IF samples = <<>> THEN [chunk |-> c, err |-> FALSE, results |-> res]
    ELSE LET r == Chunk_add_sample(c, Head(samples))
         IN CASE r.err = "Ok" ->
                    append_all(r.chunk, Tail(samples),
                               Append(res, Result("Ok", Head(samples).timestamp)))
              [] r.err = "CapacityFull" -> [chunk |-> c, err |-> TRUE, results |-> res]
              [] OTHER -> append_all(c, Tail(samples), Append(res, Result("Error", 0)))

\* chunks::merge::merge_samples: merge join of the held samples with the
\* sorted batch; each element is [sample, is_duplicate]
RECURSIVE merge_join(_, _, _)
merge_join(left, right, dp) ==
    IF left = <<>> THEN [i \in 1..Len(right) |-> [sample |-> right[i], dup |-> FALSE]]
    ELSE IF right = <<>> THEN [i \in 1..Len(left) |-> [sample |-> left[i], dup |-> FALSE]]
    ELSE IF Head(left).timestamp < Head(right).timestamp
         THEN <<[sample |-> Head(left), dup |-> FALSE]>> \o merge_join(Tail(left), right, dp)
    ELSE IF Head(left).timestamp > Head(right).timestamp
         THEN <<[sample |-> Head(right), dup |-> FALSE]>> \o merge_join(left, Tail(right), dp)
    ELSE LET dv == duplicate_value(dp, Head(left).value, Head(right).value)
         IN <<[sample |-> Sample(Head(left).timestamp, dv.value), dup |-> dv.err]>>
            \o merge_join(Tail(left), Tail(right), dp)

\* the callback of GorillaChunk::merge_samples: a result is pushed for an
\* emitted sample only while its timestamp is still in sample_set
RECURSIVE merge_results(_, _)
merge_results(merged, sample_set) ==
    IF merged = <<>> THEN <<>>
    ELSE LET m == Head(merged)
             t == m.sample.timestamp
         IN IF t \in sample_set
            THEN <<IF m.dup THEN Result("Duplicate", 0) ELSE Result("Ok", t)>>
                 \o merge_results(Tail(merged), sample_set \ {t})
            ELSE merge_results(Tail(merged), sample_set)

\* GorillaChunk::merge_samples: [chunk, err, results]
Chunk_merge_samples(c, samples, dp) ==
    IF Chunk_is_empty(c) \/ samples[1].timestamp > Chunk_last_timestamp(c)
    THEN append_all(c, samples, <<>>)
    ELSE LET merged == merge_join(c.samples, samples, dp)
         IN [chunk |-> [c EXCEPT !.samples = [i \in 1..Len(merged) |-> merged[i].sample]],
             err |-> FALSE,
             results |-> merge_results(merged, {samples[i].timestamp : i \in 1..Len(samples)})]

\* find_last_ge_index, at most 16 chunks (1-based)
find_last_ge_index(cs, ts) ==
    LET ge == { i \in 1..Len(cs) : ts >= Chunk_first_timestamp(cs[i]) }
    IN IF ge = {} THEN 1
       ELSE LET idx == CHOOSE i \in ge : \A j \in ge : j <= i
            IN IF is_timestamp_in_range(cs[idx], ts) THEN idx ELSE Max2(idx - 1, 1)

\* find_start_chunk_index, at most 16 chunks (1-based, Len+1 when none)
find_start_chunk_index(cs, ts) ==
    IF cs = <<>> THEN 1
    ELSE IF ts <= Chunk_first_timestamp(cs[1]) THEN 1
    ELSE LET ge == { i \in 1..Len(cs) : ts >= Chunk_first_timestamp(cs[i]) }
         IN IF ge = {} THEN Len(cs) + 1 ELSE CHOOSE i \in ge : \A j \in ge : i <= j

add_to_group(groups, k, e) ==
    IF k \in DOMAIN groups THEN [groups EXCEPT ![k] = Append(@, e)]
    ELSE groups @@ (k :> <<e>>)

\* the loop of group_samples_by_chunk from the i-th sample on:
\* [chunks, groups, results]; a group is a sequence of [index, sample]
RECURSIVE group_loop(_, _, _, _, _, _, _)
group_loop(S, samples, i, cs, groups, results, earliest) ==
    IF i > Len(samples) THEN [chunks |-> cs, groups |-> groups, results |-> results]
    ELSE
        LET sample == samples[i]
            ts == sample.timestamp
        IN
        IF ts < earliest
        THEN group_loop(S, samples, i + 1, cs, groups,
                        [results EXCEPT ![i] = Result("TooOld", 0)], earliest)
        ELSE IF Series_is_empty(S) \/ ts < S.first_timestamp
        THEN Bind(add_to_group(groups, 1, [index |-> i, sample |-> sample]),
                  LAMBDA g : group_loop(S, samples, i + 1, cs, g, results, earliest))
        ELSE
            LET index == find_last_ge_index(cs, ts)
                chunk == cs[index]
                sp == Chunk_split(chunk)
                split_cs == InsertAt([cs EXCEPT ![index] = sp.left], index + 1, sp.right)
                chunk_index == IF should_split(chunk) /\ is_timestamp_in_range(sp.right, ts)
                               THEN index + 1 ELSE index
            IN Bind(<<IF should_split(chunk) THEN split_cs ELSE cs,
                      add_to_group(groups, chunk_index, [index |-> i, sample |-> sample])>>,
                    LAMBDA n : group_loop(S, samples, i + 1, n[1], n[2], results, earliest))

\* GroupedSamples::sort_by_timestamp: stable sort by timestamp
RECURSIVE sort_by_timestamp(_)
sort_by_timestamp(g) ==
    IF g = <<>> THEN <<>>
    ELSE LET rest == sort_by_timestamp(Tail(g))
             Before(e) == e.sample.timestamp < Head(g).sample.timestamp
             NotBefore(e) == ~Before(e)
         IN SelectSeq(rest, Before) \o <<Head(g)>> \o SelectSeq(rest, NotBefore)

\* GroupedSamples::handle_merge on one group: [chunk, pairs], a pair is
\* [index, res]; the results are zipped with the group's indices
handle_merge(c, group, dp) ==
    Bind(Chunk_merge_samples(c, [i \in 1..Len(group) |-> group[i].sample], dp),
         LAMBDA r :
           IF r.err
           THEN [chunk |-> r.chunk,
                 pairs |-> [i \in 1..Len(group) |->
                                [index |-> group[i].index, res |-> Result("Error", 0)]]]
           ELSE [chunk |-> r.chunk,
                 pairs |-> [i \in 1..Min2(Len(group), Len(r.results)) |->
                                [index |-> group[i].index, res |-> r.results[i]]]])

\* one group merged into its chunk and its results mapped back:
\* <<series, results>>
merge_group(S, k, h, results) ==
    LET oks == { i \in 1..Len(h.pairs) : h.pairs[i].res.tag = "Ok" }
        ok_ts == { h.pairs[i].res.ts : i \in oks }
        lowest == CHOOSE t \in ok_ts : \A u \in ok_ts : t <= u
    IN <<[S EXCEPT !.chunks[k] = h.chunk,
                   !.first_timestamp =
                       IF oks = {} THEN @
                       ELSE IF Series_is_empty(S) THEN lowest
                       ELSE Min2(@, lowest),
                   !.total_samples = UAdd(@, Cardinality(oks))],
         [i \in 1..Len(results) |->
             IF \E j \in 1..Len(h.pairs) : h.pairs[j].index = i
             THEN h.pairs[CHOOSE j \in 1..Len(h.pairs) : h.pairs[j].index = i].res
             ELSE results[i]]>>

\* the groups are merged into their chunks and the results mapped back
RECURSIVE merge_groups(_, _, _, _, _)
merge_groups(S, keys, groups, results, dp) ==
    IF keys = {} THEN [s |-> S, results |-> results, panic |-> FALSE]
    ELSE
        LET k == CHOOSE x \in keys : \A y \in keys : x <= y
        IN
        IF k > Len(S.chunks) THEN [s |-> S, results |-> results, panic |-> TRUE]
        ELSE Bind(handle_merge(S.chunks[k], sort_by_timestamp(groups[k]), dp),
                  LAMBDA h :
                    Bind(merge_group(S, k, h, results),
                         LAMBDA n : merge_groups(n[1], keys \ {k}, groups, n[2], dp)))

\* TimeSeries::merge_samples: [s, results, panic]
merge_samples(S, samples, dp) ==
    IF samples = <<>> THEN [s |-> S, results |-> <<>>, panic |-> FALSE]
    ELSE
        LET earliest == IF retention = 0 THEN 0 ELSE get_min_timestamp(S)
            results == [i \in 1..Len(samples) |-> Result("Unknown error", 0)]
            cs == IF S.chunks = <<>> THEN <<create_chunk>> ELSE S.chunks
        IN Bind(group_loop(S, samples, 1, cs, <<>>, results, earliest),
                LAMBDA g :
                  Bind(merge_groups([S EXCEPT !.chunks = g.chunks], DOMAIN g.groups,
                                    g.groups, g.results, dp),
                       LAMBDA m : [s |-> update_last_sample(m.s), results |-> m.results,
                                   panic |-> m.panic]))

\* ------------------------------------------------- get_range / remove_range
overlaps(S, start_ts, end_ts) ==
    last_timestamp(S) >= start_ts /\ S.first_timestamp <= end_ts

\* get_chunk_index_bounds: <<>> for None, else <<start_idx, end_idx>> (1-based)
get_chunk_index_bounds(S, start, end) ==
    IF Series_is_empty(S) THEN <<>>
    ELSE
        LET len == Len(S.chunks)
            start_idx == find_start_chunk_index(S.chunks, start)
        IN
        IF start_idx > len THEN <<>>
        ELSE
            LET right == SubSeq(S.chunks, start_idx, len)
                end_idx == start_idx + (find_last_ge_index(right, end) - 1)
            IN IF start_idx = end_idx /\ Chunk_first_timestamp(S.chunks[start_idx]) > end
               THEN <<>>
               ELSE <<start_idx, end_idx>>

\* get_range_parallel: the per-chunk ranges, concatenated in chunk order
get_range_parallel(cs, start, end) ==
    Flatten([i \in 1..Len(cs) |-> Chunk_get_range(cs[i], start, end)])

get_range(S, start_time, end_time) ==
    IF ~overlaps(S, start_time, end_time) THEN <<>>
    ELSE LET range == get_chunk_index_bounds(S, start_time, end_time)
         IN IF range = <<>> THEN <<>>
            ELSE get_range_parallel(SubSeq(S.chunks, range[1], range[2]),
                                    start_time, end_time)

\* TimeSeries::remove_range: [s, deleted, underflow]
remove_range(S, start_ts, end_ts) ==
    LET range == get_chunk_index_bounds(S, start_ts, end_ts)
    IN
    IF range = <<>> THEN [s |-> S, deleted |-> 0, underflow |-> FALSE]
    ELSE
        LET touched == range[1]..range[2]
            Whole(i) == is_contained_by_range(S.chunks[i], start_ts, end_ts)
            After(i) == IF Whole(i) THEN Chunk_clear(S.chunks[i])
                        ELSE Chunk_remove_range(S.chunks[i], start_ts, end_ts).chunk
            Removed(i) == IF Whole(i) THEN Chunk_len(S.chunks[i])
                          ELSE Chunk_remove_range(S.chunks[i], start_ts, end_ts).count
            cs1 == [i \in 1..Len(S.chunks) |-> IF i \in touched THEN After(i) ELSE S.chunks[i]]
            deleted_samples == SumSeq([i \in 1..Len(cs1) |->
                                          IF i \in touched THEN Removed(i) ELSE 0])
            deleted_chunks == Cardinality({ i \in touched : Chunk_is_empty(cs1[i]) })
            NonEmpty(c) == ~Chunk_is_empty(c)
            cs2 == IF deleted_chunks = 0 THEN cs1
                   ELSE IF deleted_chunks = Len(cs1)
                   THEN Append(SelectSeq(SubSeq(cs1, 1, Len(cs1) - 1), NonEmpty),
                               cs1[Len(cs1)])
                   ELSE SelectSeq(cs1, NonEmpty)
            S1 == [S EXCEPT !.chunks = cs2,
                            !.total_samples = USub(@, deleted_samples)]
        IN [s |-> update_first_last_timestamps(S1),
            deleted |-> deleted_samples,
            underflow |-> deleted_samples > S.total_samples]

\* ------------------------------------------------------------------ state
\* every stored sample, in chunk order
Stored(S) == Flatten([i \in 1..Len(S.chunks) |-> S.chunks[i].samples])

Bounded(S, limit) ==
    /\ Len(Stored(S)) <= limit
    /\ \A i \in 1..Len(Stored(S)) : Stored(S)[i].value <= MaxValue
    /\ S.total_samples <= limit + 1 \/ S.total_samples >= UsizeModulus - (limit + 1)

\* what the last command was, what it was given and what it answered
\* ---- the label index of one DB: series/index/postings.rs

\* bounds of the index model
MaxId == 3
SweepBatch == 1
MaxDumps == 1
DBs == {0, 1}
Keys == {"k1", "k2"}
Threads == {"t1", "t2"}

\* the main thread of the host, which runs the commands and the event hooks
Host == "host"

\* where a thread is: its position and the DBs of the swap it is running
Position(position, from_db, to_db) == [at |-> position, from_db |-> from_db, to_db |-> to_db]

Idle == Position("idle", 0, 0)

METRIC_NAME_LABEL == "__name__"

\* the label=value pairs of the model; the index key of a pair is the byte
\* string label_name \0 label_value
LabelPairs == << [name |-> METRIC_NAME_LABEL, value |-> "m"],
                 [name |-> "job", value |-> "a"],
                 [name |-> "job", value |-> "b"],
                 [name |-> "i", value |-> ""],
                 [name |-> "i", value |-> "a"],
                 [name |-> "i", value |-> "b"],
                 [name |-> "n", value |-> "1"],
                 [name |-> "n", value |-> "2"] >>

IndexKeys == 1..Len(LabelPairs)

\* the index keys in the byte order of the ordered map
KeyOrder == << 1, 4, 5, 6, 2, 3, 7, 8 >>

\* the byte string of key a is a prefix of the byte string of key b
IsPrefix(a, b) ==
    \/ a = b
    \/ LabelPairs[a].name = LabelPairs[b].name /\ LabelPairs[a].value = ""

\* no cursor, Option<IndexKey>::None
NoKey == 0

\* the label sets a series can hold: one value for each label name
LabelSets ==
    { L \in SUBSET IndexKeys :
        \A a \in L, b \in L : LabelPairs[a].name = LabelPairs[b].name => a = b }

\* retention is the retention of the series in milliseconds and
\* total_samples the number of samples it holds
TimeSeries(id, labels, db) ==
    [id |-> id, labels |-> labels, _db |-> db, retention |-> 0, total_samples |-> 0]

\* a key that holds no series
NoSeries == TimeSeries(0, {}, 0 - 1)

Postings_default ==
    [label_index |-> [k \in {} |-> {}],
     id_to_key |-> [i \in {} |-> ""],
     stale_ids |-> {},
     all_postings |-> {}]

\* the bitmap of an index key, empty when the key is absent
label_index_get(P, k) ==
    IF k \in DOMAIN P.label_index THEN P.label_index[k] ELSE {}

MapRemove(f, x) == [y \in DOMAIN f \ {x} |-> f[y]]

MapInsert(f, x, v) == [y \in DOMAIN f \cup {x} |-> IF y = x THEN v ELSE f[y]]

remove_posting_for_label_value(P, k, ts_id) ==
    IF k \in DOMAIN P.label_index
    THEN IF ts_id \in P.label_index[k] /\ P.label_index[k] \ {ts_id} = {}
         THEN [P EXCEPT !.label_index = MapRemove(@, k)]
         ELSE [P EXCEPT !.label_index[k] = @ \ {ts_id}]
    ELSE P

add_posting_for_label_value_internal(P, ts_id, k) ==
    [P EXCEPT !.label_index = MapInsert(@, k, label_index_get(P, k) \cup {ts_id})]

set_timeseries_key(P, id, new_key) ==
    [P EXCEPT !.id_to_key = MapInsert(@, id, new_key)]

RECURSIVE AddLabels(_, _, _)
AddLabels(P, id, labels) ==
    IF labels = {} THEN P
    ELSE LET k == CHOOSE x \in labels : TRUE
         IN AddLabels(add_posting_for_label_value_internal(P, id, k), id, labels \ {k})

index_timeseries(P, ts, key) ==
    LET labelled == AddLabels(P, ts.id, ts.labels)
    IN set_timeseries_key([labelled EXCEPT !.all_postings = @ \cup {ts.id}],
                          ts.id, key)

RECURSIVE RemoveLabels(_, _, _)
RemoveLabels(P, id, labels) ==
    IF labels = {} THEN P
    ELSE LET k == CHOOSE x \in labels : TRUE
         IN RemoveLabels(remove_posting_for_label_value(P, k, id), id, labels \ {k})

remove_timeseries(P, series) ==
    RemoveLabels([P EXCEPT !.id_to_key = MapRemove(@, series.id),
                           !.all_postings = @ \ {series.id}],
                 series.id, series.labels)

reindex_timeseries(P, series, key) ==
    index_timeseries(remove_timeseries(P, series), series, key)

has_id(P, id) == id \in DOMAIN P.id_to_key

mark_id_as_stale(P, id) ==
    [P EXCEPT !.id_to_key = MapRemove(@, id),
              !.stale_ids = @ \cup {id},
              !.all_postings = @ \ {id}]

\* no id, Option<SeriesRef>::None
NoId == 0 - 1

\* the id stored under a key
id_for_key(P, key) ==
    IF \E i \in DOMAIN P.id_to_key : P.id_to_key[i] = key
    THEN CHOOSE i \in DOMAIN P.id_to_key : P.id_to_key[i] = key
    ELSE NoId

mark_key_as_stale(P, key) ==
    IF \E i \in DOMAIN P.id_to_key : P.id_to_key[i] = key
    THEN mark_id_as_stale(P, id_for_key(P, key))
    ELSE P

\* the keys label_index.prefix_mut visits, in key order: every key for the
\* empty prefix, otherwise the keys that begin with the prefix
prefix_mut(P, start_prefix) ==
    LET visited == IF start_prefix = NoKey
                   THEN DOMAIN P.label_index
                   ELSE { k \in DOMAIN P.label_index : IsPrefix(start_prefix, k) }
    IN SelectSeq(KeyOrder, LAMBDA k : k \in visited)

\* one batch of the stale sweep: the new postings and the next cursor
remove_stale_ids(P, start_prefix, count) ==
    IF P.stale_ids = {}
    THEN [p |-> P, next_key |-> NoKey]
    ELSE LET keys == prefix_mut(P, start_prefix)
             stopped == Len(keys) > count
             seen == SubSeq(keys, 1, IF stopped THEN count + 1 ELSE Len(keys))
             keys_processed == IF stopped THEN count ELSE Len(keys)
             next_key == IF stopped THEN keys[count + 1] ELSE NoKey
             swept == { seen[i] : i \in 1..Len(seen) }
             keys_to_remove == { k \in swept : P.label_index[k] \ P.stale_ids = {} }
             label_index ==
                 [k \in DOMAIN P.label_index \ keys_to_remove |->
                    IF k \in swept THEN P.label_index[k] \ P.stale_ids
                    ELSE P.label_index[k]]
             id_to_key ==
                 IF keys_processed > 0
                 THEN [i \in DOMAIN P.id_to_key \ P.stale_ids |-> P.id_to_key[i]]
                 ELSE P.id_to_key
             stale_ids ==
                 IF keys_processed > 0 /\ next_key = NoKey THEN {} ELSE P.stale_ids
         IN [p |-> [label_index |-> label_index, id_to_key |-> id_to_key,
                    stale_ids |-> stale_ids, all_postings |-> P.all_postings],
             next_key |-> next_key]

\* TimeSeriesIndex::remove_stale_ids: batches until no cursor comes back
RECURSIVE sweep_from(_, _)
sweep_from(P, cursor) ==
    LET r == remove_stale_ids(P, cursor, SweepBatch)
    IN IF r.next_key = NoKey THEN r.p ELSE sweep_from(r.p, r.next_key)

TimeSeriesIndex_remove_stale_ids(P) ==
    IF P.stale_ids = {} THEN P ELSE sweep_from(P, NoKey)

Postings_swap(P, Q) == [self |-> Q, other |-> P]

\* ---- queries: a filter is a label name, a match operator and a value or
\* pattern; a selector is And of a filter list or Or of filter lists

LabelFilter(label, typ, value) == [label |-> label, op |-> typ, value |-> value]

\* label=value and label!=value for the pair of an index key
Equal(k) == LabelFilter(LabelPairs[k].name, "Equal", LabelPairs[k].value)

NotEqual(k) == LabelFilter(LabelPairs[k].name, "NotEqual", LabelPairs[k].value)

RegexEqual(label, pattern) == LabelFilter(label, "RegexEqual", pattern)

RegexNotEqual(label, pattern) == LabelFilter(label, "RegexNotEqual", pattern)

And(filters) == [kind |-> "And", filters |-> filters]

Or(lists) == [kind |-> "Or", filters |-> lists]

\* an anchored pattern against a label value: .* , .+ , or a literal
regex_matches(pattern, value) ==
    IF pattern = ".*" THEN TRUE
    ELSE IF pattern = ".+" THEN value # ""
    ELSE value = pattern

\* LabelFilter::matches
matches(f, value) ==
    IF f.op = "Equal" THEN value = f.value
    ELSE IF f.op = "NotEqual" THEN value # f.value
    ELSE IF f.op = "RegexEqual" THEN regex_matches(f.value, value)
    ELSE ~regex_matches(f.value, value)

matches_empty(f) == matches(f, "")

is_negative_matcher(f) == f.op \in {"NotEqual", "RegexNotEqual"}

\* LabelFilter::inverse
inverse(f) ==
    [f EXCEPT !.op = IF f.op = "Equal" THEN "NotEqual"
                     ELSE IF f.op = "NotEqual" THEN "Equal"
                     ELSE IF f.op = "RegexEqual" THEN "RegexNotEqual"
                     ELSE "RegexEqual"]

remove_stale_if_needed(P, postings) == postings \ P.stale_ids

postings_for_key(P, k) == label_index_get(P, k) \ P.stale_ids

\* the index key of a name and a value; NoKey stands for a key that no series
\* of the model holds
for_label_value(name, value) ==
    IF \E k \in IndexKeys : LabelPairs[k] = [name |-> name, value |-> value]
    THEN CHOOSE k \in IndexKeys : LabelPairs[k] = [name |-> name, value |-> value]
    ELSE NoKey

postings_for_label_value(P, name, value) ==
    postings_for_key(P, for_label_value(name, value))

\* label_index.prefix(label_name \0): the keys of the label
keys_with_prefix(P, name) ==
    { k \in DOMAIN P.label_index : LabelPairs[k].name = name }

postings_for_all_label_values(P, name) ==
    remove_stale_if_needed(P, UNION { P.label_index[k] : k \in keys_with_prefix(P, name) })

\* the values a label takes in the index keys of the model
IndexedValues == { LabelPairs[k].value : k \in IndexKeys }

\* match_fn is the predicate on label values, as a function to BOOLEAN
postings_for_label_matching(P, name, match_fn) ==
    remove_stale_if_needed(P,
        UNION { P.label_index[k] :
                  k \in { x \in keys_with_prefix(P, name) : match_fn[LabelPairs[x].value] } })

postings_without_label(P, label) ==
    P.all_postings \ postings_for_all_label_values(P, label)

handle_equal_match(P, label, value) ==
    IF value = "" THEN postings_without_label(P, label)
    ELSE postings_for_label_value(P, label, value)

with_label(P, label) == postings_for_label_matching(P, label, [v \in IndexedValues |-> TRUE])

handle_not_equal_match(P, label, value) ==
    IF value = "" THEN with_label(P, label)
    ELSE P.all_postings \ postings_for_label_value(P, label, value)

postings_matching_filter(P, f) ==
    postings_for_label_matching(P, f.label, [v \in IndexedValues |-> matches(f, v)])

handle_regex_equal_match(P, f) ==
    IF matches_empty(f) THEN postings_without_label(P, f.label)
    ELSE postings_matching_filter(P, f)

handle_regex_not_equal_match(P, f) ==
    IF matches_empty(f) THEN with_label(P, f.label)
    ELSE postings_matching_filter(P, f)

postings_for_filter(P, f) ==
    IF f.op = "Equal" THEN handle_equal_match(P, f.label, f.value)
    ELSE IF f.op = "NotEqual" THEN handle_not_equal_match(P, f.label, f.value)
    ELSE IF f.op = "RegexEqual" THEN handle_regex_equal_match(P, f)
    ELSE handle_regex_not_equal_match(P, f)

inverse_postings_for_filter(P, f) ==
    IF f.op = "NotEqual" THEN handle_equal_match(P, f.label, f.value)
    ELSE IF f.op = "Equal" /\ f.value = "" THEN postings_for_all_label_values(P, f.label)
    ELSE IF f.op = "RegexEqual" /\ f.value \in {"", ".*"}
    THEN postings_for_all_label_values(P, f.label)
    ELSE postings_for_label_matching(P, f.label, [v \in IndexedValues |-> ~matches(f, v)])

RECURSIVE intersection(_)
intersection(its) ==
    IF its = <<>> THEN {}
    ELSE IF Len(its) = 1 THEN its[1]
    ELSE its[1] \cap intersection(Tail(its))

RECURSIVE UnionAll(_)
UnionAll(its) == IF its = <<>> THEN {} ELSE its[1] \cup UnionAll(Tail(its))

is_subtracting(f) == matches_empty(f) \/ is_negative_matcher(f)

\* the matchers with the intersecting ones first
sorted_matchers(filters) ==
    SelectSeq(filters, LAMBDA f : ~is_subtracting(f)) \o SelectSeq(filters, is_subtracting)

\* the loop over the sorted matchers: the bitmaps to intersect, the bitmaps to
\* subtract, and whether the function returned the empty bitmap on the way
RECURSIVE collect_matchers(_, _, _, _)
collect_matchers(P, sorted, its, not_its) ==
    IF sorted = <<>> THEN [its |-> its, not_its |-> not_its, empty |-> FALSE]
    ELSE LET f == sorted[1]
             rest == Tail(sorted)
         IN IF f.op = "RegexEqual" /\ f.value = ".*"
            THEN collect_matchers(P, rest, its, not_its)
            ELSE IF f.op = "RegexNotEqual" /\ f.value = ".*"
            THEN [its |-> its, not_its |-> not_its, empty |-> TRUE]
            ELSE IF f.op = "RegexEqual" /\ f.value = ".+"
            THEN collect_matchers(P, rest,
                     Append(its, postings_for_all_label_values(P, f.label)), not_its)
            ELSE IF f.op = "RegexNotEqual" /\ f.value = ".+"
            THEN collect_matchers(P, rest, its,
                     Append(not_its, postings_for_all_label_values(P, f.label)))
            ELSE IF ~matches_empty(f)
            THEN LET it == IF is_negative_matcher(f)
                           THEN inverse_postings_for_filter(P, inverse(f))
                           ELSE postings_for_filter(P, f)
                 IN IF it = {}
                    THEN [its |-> its, not_its |-> not_its, empty |-> TRUE]
                    ELSE collect_matchers(P, rest, Append(its, it), not_its)
            ELSE collect_matchers(P, rest, its,
                     Append(not_its, inverse_postings_for_filter(P, f)))

postings_for_label_filters(P, filters) ==
    IF filters = <<>> THEN P.all_postings
    ELSE IF Len(filters) = 1 /\ ~is_negative_matcher(filters[1]) /\ ~matches_empty(filters[1])
    THEN postings_for_filter(P, filters[1])
    ELSE LET seeded == IF \A i \in 1..Len(filters) : is_subtracting(filters[i])
                       THEN << P.all_postings >>
                       ELSE <<>>
             c == collect_matchers(P, sorted_matchers(filters), seeded, <<>>)
         IN IF c.empty THEN {}
            ELSE IF Len(c.its) = 1 /\ c.not_its = <<>> THEN c.its[1]
            ELSE (IF c.its = <<>> THEN P.all_postings ELSE intersection(c.its))
                     \ UnionAll(c.not_its)

process_or_matchers(P, lists) ==
    IF lists = <<>> THEN P.all_postings
    ELSE IF Len(lists) = 1 THEN postings_for_label_filters(P, lists[1])
    ELSE UnionAll([i \in 1..Len(lists) |-> postings_for_label_filters(P, lists[i])])

postings_for_selector(P, selector) ==
    IF selector.kind = "And"
    THEN postings_for_label_filters(P, selector.filters)
    ELSE process_or_matchers(P, selector.filters)

postings_for_selectors(P, selectors) ==
    IF selectors = <<>> THEN {}
    ELSE intersection([i \in 1..Len(selectors) |->
                          postings_for_selector(P, selectors[i])]) \ P.stale_ids

\* the id found in the bitmap of every one of the labels, when there is
\* exactly one such id
posting_id_by_labels(P, labels) ==
    IF labels = {} \/ \E k \in labels : k \notin DOMAIN P.label_index
    THEN NoId
    ELSE LET acc == { i \in UNION { P.label_index[k] : k \in labels } :
                        \A k \in labels : i \in P.label_index[k] } \ P.stale_ids
         IN IF Cardinality(acc) = 1 THEN CHOOSE i \in acc : TRUE ELSE NoId

\* ---- the process-wide state around the indexes: series/index/mod.rs

get_timeseries_index_for_db(map, db) ==
    IF db \in DOMAIN map THEN map ELSE MapInsert(map, db, Postings_default)

\* ------------------------------------------------ series/background_tasks.rs
\* the intervals of the tasks, in milliseconds
RETENTION_CLEANUP_INTERVAL == 10000
STALE_ID_CLEANUP_INTERVAL == 15000
INDEX_OPTIMIZE_INTERVAL == 60000
DB_CLEANUP_INTERVAL == 300000

\* get_hz falls back to 10 when the server reports no hz
DefaultHz == 10

get_ticks_interval_from_hz(hz) ==
    LET used == IF hz = 0 THEN 10 ELSE hz
    IN 1000 \div used

floor_duration(d, interval) ==
    IF interval = 0 THEN 0 ELSE (d \div interval) * interval

ticks_for_interval(task_interval, cron_interval) ==
    Max2(1, task_interval \div cron_interval)

\* register_task: [map, panic]; the map takes a number of ticks to the
\* handlers registered under it, in the order of registration
register_task(reg, task_interval, cron_interval, f) ==
    IF reg.panic \/ cron_interval = 0 THEN [map |-> reg.map, panic |-> TRUE]
    ELSE LET floored == floor_duration(task_interval, cron_interval)
             interval_ticks == ticks_for_interval(floored, cron_interval)
             map == reg.map
         IN IF floored = 0 THEN reg
            ELSE IF interval_ticks \in DOMAIN map
            THEN IF \E i \in 1..Len(map[interval_ticks]) : map[interval_ticks][i] = f
                 THEN reg
                 ELSE [reg EXCEPT !.map[interval_ticks] = Append(@, f)]
            ELSE [reg EXCEPT !.map = map @@ (interval_ticks :> <<f>>)]

\* init_background_tasks with the hz of the server: [map, panic]
init_background_tasks(hz) ==
    LET cron_interval == get_ticks_interval_from_hz(hz)
        none == [map |-> [k \in {} |-> <<>>], panic |-> FALSE]
        r1 == register_task(none, RETENTION_CLEANUP_INTERVAL, cron_interval, "process_trim")
        r2 == register_task(r1, STALE_ID_CLEANUP_INTERVAL, cron_interval,
                            "process_remove_stale_series")
        r3 == register_task(r2, INDEX_OPTIMIZE_INTERVAL, cron_interval, "optimize_indices")
    IN register_task(r3, DB_CLEANUP_INTERVAL, cron_interval, "trim_unused_dbs")

\* a dispatch that takes every handler, whatever the tick
dispatch_all(map, ticks) ==
    UNION { { map[interval][i] : i \in 1..Len(map[interval]) } : interval \in DOMAIN map }

\* dispatch_tasks: the handlers whose number of ticks divides ticks
dispatch_tasks(map, ticks) ==
    UNION { { map[interval][i] : i \in 1..Len(map[interval]) } :
            interval \in { k \in DOMAIN map : ticks % k = 0 } }

\* the locals of a thread that runs nothing
NoLocals == [missing_keys |-> {}, index |-> "none", detached |-> Postings_default,
             ts |-> NoSeries, key |-> ""]

\* the background tasks after the module was loaded by a server of some hz
TasksInit(hzs) ==
    /\ CRON_TICKS = 0
    /\ \E hz \in hzs :
          /\ CRON_INTERVAL_MS = get_ticks_interval_from_hz(hz)
          /\ DISPATCH_MAP = init_background_tasks(hz).map
    /\ SHUTTING_DOWN = FALSE
    /\ SERIES_TRIM_CURSORS = [d \in DBs |-> 0]
    /\ OPTIMIZE_CURSORS = [d \in DBs |-> NoKey]
    /\ CURRENT_DB = 0
    /\ spawned = {}
    /\ locals = [t \in Threads \cup {Host} |-> NoLocals]

\* what the last index operation was, and the highest id handed out so far
Ev(name, db, key, id, res) ==
    [name |-> name, db |-> db, key |-> key, id |-> id, res |-> res, labels |-> {},
     high |-> IF name \in {"create", "copy"} /\ id > ev.high THEN id ELSE ev.high]

NoEv == [name |-> "none", db |-> 0, key |-> "", id |-> NoId, res |-> "",
         labels |-> {}, high |-> NoId]

\* the process after the module has been loaded into an empty server whose
\* hz is one of hzs
IndexInitHz(hzs) ==
    /\ keyspace = [d \in DBs |-> [k \in Keys |-> NoSeries]]
    /\ TIMESERIES_INDEX = [d \in {} |-> Postings_default]
    /\ TIMESERIES_ID = 1
    /\ INDEX_CURSORS = [d \in DBs |-> NoKey]
    /\ ctx_lock = "none"
    /\ inner_lock = [d \in DBs |-> "none"]
    /\ pc = [t \in Threads \cup {Host} |-> Idle]
    /\ series_metas = << >>
    /\ TasksInit(hzs)
    /\ marked = [d \in DBs |-> {}]
    /\ dumps = {}
    /\ ev = NoEv

IndexInit == IndexInitHz({DefaultHz})

Op(name, samples, from, to, res, out, deleted) ==
    [name |-> name, samples |-> samples, from |-> from, to |-> to,
     res |-> res, out |-> out, deleted |-> deleted]

NoOp == Op("none", <<>>, 0, 0, <<>>, <<>>, 0)

\* a new series, TimeSeries::with_options
InitSeriesHz(sizes, retentions, policies, hzs) ==
    /\ chunks = <<>>
    /\ total_samples = 0
    /\ first_timestamp = 0
    /\ last_sample = <<>>
    /\ chunk_size_bytes \in sizes
    /\ retention \in retentions
    /\ policy \in policies
    /\ panicked = FALSE
    /\ op = NoOp
    /\ IndexInitHz(hzs)

InitSeries(sizes, retentions, policies) ==
    InitSeriesHz(sizes, retentions, policies, {DefaultHz})

SetSeries(S) ==
    /\ chunks' = S.chunks
    /\ total_samples' = S.total_samples
    /\ first_timestamp' = S.first_timestamp
    /\ last_sample' = S.last_sample

Panic ==
    /\ panicked' = TRUE
    /\ UNCHANGED <<chunks, total_samples, first_timestamp, last_sample>>

\* ADD key ts value
Add(ts, value, limit, observe) ==
    /\ ~panicked
    /\ \E o \in add(Series, ts, value, policy) :
        /\ Bounded(o.s, limit)
        /\ IF o.panic THEN Panic ELSE SetSeries(o.s) /\ panicked' = FALSE
        /\ op' = IF observe
                 THEN Op("add", <<Sample(ts, value)>>, 0, 0, <<o.res>>, <<>>, 0)
                 ELSE NoOp
    /\ UNCHANGED <<chunk_size_bytes, retention, policy>>
    /\ UNCHANGED index_vars

\* MADD: a batch for one series
MergeSamples(batch, limit, observe) ==
    /\ ~panicked
    /\ \E m \in {merge_samples(Series, batch, policy)} :
          /\ Bounded(m.s, limit)
          /\ IF m.panic THEN Panic ELSE SetSeries(m.s) /\ panicked' = FALSE
          /\ op' = IF observe
                   THEN Op("merge_samples", batch, 0, 0, m.results, <<>>, 0)
                   ELSE NoOp
    /\ UNCHANGED <<chunk_size_bytes, retention, policy>>
    /\ UNCHANGED index_vars

\* DELETE key from to
RemoveRange(start, end, limit, observe) ==
    /\ ~panicked
    /\ start <= end
    /\ \E r \in {remove_range(Series, start, end)} :
          /\ Bounded(r.s, limit)
          /\ \E p \in (IF r.underflow THEN BOOLEAN ELSE {FALSE}) :
                IF p THEN Panic ELSE SetSeries(r.s) /\ panicked' = FALSE
          /\ op' = IF observe
                   THEN Op("remove_range", <<>>, start, end, <<>>, <<>>, r.deleted)
                   ELSE NoOp
    /\ UNCHANGED <<chunk_size_bytes, retention, policy>>
    /\ UNCHANGED index_vars

\* series.trim() on the one series of a batch
TrimSeries(limit, observe) ==
    /\ ~panicked
    /\ retention # 0
    /\ ~Series_is_empty(Series)
    /\ \E t \in {trim(Series)} :
          /\ Bounded(t.s, limit)
          /\ \E p \in (IF t.underflow THEN BOOLEAN ELSE {FALSE}) :
                IF p THEN Panic ELSE SetSeries(t.s) /\ panicked' = FALSE
          /\ op' = IF observe
                   THEN Op("trim", <<>>, 0, 0, <<>>, <<>>, t.deleted)
                   ELSE NoOp
    /\ UNCHANGED <<chunk_size_bytes, retention, policy>>

\* the retention trim of the background task
Trim(limit, observe) ==
    /\ TrimSeries(limit, observe)
    /\ UNCHANGED index_vars

\* RANGE key from to
GetRange(start, end) ==
    /\ ~panicked
    /\ start <= end
    /\ op' = Op("get_range", <<>>, start, end, <<>>, get_range(Series, start, end), 0)
    /\ UNCHANGED <<chunks, total_samples, first_timestamp, last_sample,
                   chunk_size_bytes, retention, policy, panicked>>
    /\ UNCHANGED index_vars

BatchesOf(ts, vs) == UNION { [1..n -> [timestamp : ts, value : vs]] : n \in 1..MaxBatch }

DistinctTimestamps(b) ==
    \A i \in 1..Len(b), j \in 1..Len(b) : i # j => b[i].timestamp # b[j].timestamp

\* ---- the series under every mutating operation; op is not recorded
Init == InitSeries({ChunkSize, ChunkSize + 1}, {0, Retention}, {"KeepLast", "Block"})

Next ==
    \/ \E ts \in Timestamps, v \in {1} : Add(ts, v, MaxSamples, FALSE)
    \/ \E b \in BatchesOf(Timestamps, {1}) :
          DistinctTimestamps(b) /\ MergeSamples(b, MaxSamples, FALSE)
    \/ \E a \in Timestamps, b \in Timestamps : RemoveRange(a, b, MaxSamples, FALSE)
    \/ Trim(MaxSamples, FALSE)

Spec == Init /\ [][Next]_vars

\* every chunk holds its samples in ascending timestamp order
ChunksSortedInside ==
    \A i \in 1..Len(chunks) : \A j \in 1..(Chunk_len(chunks[i]) - 1) :
        chunks[i].samples[j].timestamp <= chunks[i].samples[j + 1].timestamp

\* SeriesSampleIterator collected: after the first chunk, the first chunk
\* that yields no sample ends the iteration; each chunk moves start to its
\* last timestamp
RECURSIVE get_iter(_, _, _, _)
get_iter(cs, i, start, end) ==
    IF i > Len(cs) THEN <<>>
    ELSE LET samples == Chunk_get_range(cs[i], start, end)
         IN IF samples = <<>> THEN <<>>
            ELSE samples \o get_iter(cs, i + 1, Chunk_last_timestamp(cs[i]), end)

SeriesSampleIterator(S, start, end) ==
    LET chunk_index == find_start_chunk_index(S.chunks, start)
    IN IF chunk_index > Len(S.chunks) THEN <<>>
       ELSE LET first == Chunk_get_range(S.chunks[chunk_index], start, end)
                next_start == Chunk_last_timestamp(S.chunks[chunk_index])
            IN IF first = <<>>
               THEN get_iter(S.chunks, chunk_index + 1, next_start, end)
               ELSE first \o get_iter(S.chunks, chunk_index + 1, next_start, end)

\* TimeSeries::iter
iter(S) == SeriesSampleIterator(S, S.first_timestamp, last_timestamp(S))

\* ---- upserts that split: chunks of 2 * ChunkSize samples, KeepLast
SplitChunkSize == 2 * ChunkSize
SplitTimestamps == 1..(2 * MaxTs)
SplitSamples == 2 * MaxSamples

InitSplit == InitSeries({SplitChunkSize}, {0}, {"KeepLast"})

NextSplit == \E ts \in SplitTimestamps : Add(ts, 1, SplitSamples, TRUE)

SpecSplit == InitSplit /\ [][NextSplit]_vars

\* ---- the series under ADD alone, every duplicate policy, op recorded
InitAdd == InitSeries({ChunkSize, ChunkSize + 1}, {0}, Policies)

NextAdd == \E ts \in Timestamps, v \in {1, 2} : Add(ts, v, MaxSamples, TRUE)

SpecAdd == InitAdd /\ [][NextAdd]_vars

\* ---- a series with a retention period under ADD and the retention trim
RetentionTimestamps == 1..(MaxTs + Retention)

InitRetention == InitSeries({ChunkSize}, {Retention}, {"KeepLast"})

NextRetention ==
    \/ \E ts \in RetentionTimestamps : Add(ts, 1, MaxSamples, TRUE)
    \/ Trim(MaxSamples, TRUE)

SpecRetention == InitRetention /\ [][NextRetention]_vars

\* ---- ADD and MADD side by side, batches in any order and with repeated
\* timestamps, op recorded
InitMerge == InitSeries({ChunkSize}, {0}, {"KeepLast"})

NextMerge ==
    \/ \E ts \in Timestamps : Add(ts, 1, MaxSamples, TRUE)
    \/ \E b \in BatchesOf(Timestamps, {2}) :
          MergeSamples(b, MaxSamples, TRUE)

SpecMerge == InitMerge /\ [][NextMerge]_vars

\* ---- ADD and RANGE, the range bounds reaching past the stored timestamps
RangeBounds == 0..(MaxTs + 1)

InitRange == InitSeries({ChunkSize}, {0}, {"KeepLast"})

NextRange ==
    \/ \E ts \in Timestamps : Add(ts, 1, MaxSamples, TRUE)
    \/ \E a \in RangeBounds, b \in RangeBounds : GetRange(a, b)

SpecRange == InitRange /\ [][NextRange]_vars

\* ---- ADD and DELETE, the range bounds reaching past the stored timestamps
InitRemove == InitSeries({ChunkSize}, {0}, {"KeepLast"})

NextRemove ==
    \/ \E ts \in Timestamps : Add(ts, 1, MaxSamples, TRUE)
    \/ \E a \in RangeBounds, b \in RangeBounds : RemoveRange(a, b, MaxSamples, TRUE)

SpecRemove == InitRemove /\ [][NextRemove]_vars

\* ------------------------------------------------------------------ claims
StoredCount == SumSeq(ChunkLens(chunks))

\* C1: total_samples equals the sum of the sample counts of the chunks after
\* any sequence of add, upsert, merge_samples, remove_range and trim
C1_TotalSamplesIsSumOfChunkCounts ==
    ~panicked => total_samples = StoredCount

\* C2: the chunks are strictly ordered by first_timestamp and no two chunks'
\* [first_timestamp, last_timestamp] ranges overlap
C2_ChunksOrderedAndDisjoint ==
    ~panicked =>
        \A i \in 1..Len(chunks), j \in 1..Len(chunks) :
            (i < j /\ ~Chunk_is_empty(chunks[i]) /\ ~Chunk_is_empty(chunks[j])) =>
                /\ Chunk_first_timestamp(chunks[i]) < Chunk_first_timestamp(chunks[j])
                /\ Chunk_last_timestamp(chunks[i]) < Chunk_first_timestamp(chunks[j])

\* a series whose chunks are ordered, disjoint and sorted inside, whose
\* counters agree with the chunks and whose iteration yields what is stored
WellFormed(S) ==
    /\ S.total_samples = Len(Stored(S))
    /\ \A i \in 1..Len(S.chunks) : ~Chunk_is_empty(S.chunks[i])
    /\ \A i \in 1..(Len(Stored(S)) - 1) :
          Stored(S)[i].timestamp < Stored(S)[i + 1].timestamp
    /\ iter(S) = Stored(S)

\* q with the sample put at its place in timestamp order, replacing a
\* sample of the same timestamp
PutInOrder(q, sample) ==
    LET Before(x) == x.timestamp < sample.timestamp
        After(x) == x.timestamp > sample.timestamp
    IN SelectSeq(q, Before) \o <<sample>> \o SelectSeq(q, After)

\* the chunk a timestamp at or before the last one belongs to
OwningChunk(S, ts) ==
    IF ts <= S.first_timestamp THEN 1 ELSE get_chunk_index(S.chunks, ts)

\* C3: an upsert (KeepLast) into a full chunk splits it and stores the sample
\* in timestamp order: the iteration afterwards is the iteration before with
\* the sample put at its place, nothing lost, duplicated or out of order
C3_SplitUpsertKeepsOrder ==
    [][ (/\ op'.name = "add"
         /\ ~panicked'
         /\ WellFormed(Series)
         /\ op'.samples[1].timestamp <= last_timestamp(Series)
         /\ OwningChunk(Series, op'.samples[1].timestamp) <= Len(chunks)
         /\ should_split(chunks[OwningChunk(Series, op'.samples[1].timestamp)]))
        =>
        /\ op'.res[1] = Result("Ok", op'.samples[1].timestamp)
        /\ iter(Series') = PutInOrder(iter(Series), op'.samples[1])
      ]_vars

\* the values stored at timestamp t, one element per stored sample
ValuesAt(S, t) ==
    LET At(x) == x.timestamp = t
        q == SelectSeq(Stored(S), At)
    IN [i \in 1..Len(q) |-> q[i].value]

PolicyValue(dp, e, i) ==
    CASE dp \in {"Block", "KeepFirst"} -> e
      [] dp = "KeepLast" -> i
      [] dp = "Min" -> IF e <= i THEN e ELSE i
      [] dp = "Max" -> IF e >= i THEN e ELSE i
      [] dp = "Sum" -> e + i

\* C4: an add of value i at a timestamp t that holds value e leaves P(e,i)
\* stored at t; under Block the add reports Duplicate and e remains stored
C4_DuplicatePolicyApplied ==
    [][ (/\ op'.name = "add"
         /\ ~panicked'
         /\ Len(ValuesAt(Series, op'.samples[1].timestamp)) = 1)
        =>
        LET t == op'.samples[1].timestamp
            i == op'.samples[1].value
            e == ValuesAt(Series, t)[1]
        IN /\ ValuesAt(Series', t) = <<PolicyValue(policy, e, i)>>
           /\ (policy = "Block") <=> (op'.res[1].tag = "Duplicate")
      ]_vars

\* C5: with retention > 0 an add older than last_timestamp - retention
\* returns TooOld and leaves chunks, total_samples, first_timestamp and
\* last_sample unchanged, before the first sample or between stored samples
C5_TooOldAddRejected ==
    [][ (/\ op'.name = "add"
         /\ retention > 0
         /\ last_sample # <<>>
         /\ op'.samples[1].timestamp < last_timestamp(Series) - retention)
        =>
        /\ ~panicked'
        /\ op'.res[1].tag = "TooOld"
        /\ Series' = Series
      ]_vars

\* the stored samples of S that are no older than last_timestamp - retention
InRetentionWindow(S) ==
    LET Kept(x) == last_timestamp(S) - x.timestamp <= retention
    IN SelectSeq(Stored(S), Kept)

\* C9: retention law: after an add followed by one trim pass,
\* last_timestamp - first_timestamp <= retention and every sample within the
\* retention window is still stored
C9_RetentionLaw ==
    [][ (/\ op.name = "add"
         /\ op'.name = "trim"
         /\ retention > 0
         /\ ~panicked'
         /\ Stored(Series') # <<>>)
        =>
        /\ last_timestamp(Series') - first_timestamp' <= retention
        /\ \A i \in 1..Len(InRetentionWindow(Series)) :
              \E j \in 1..Len(Stored(Series')) :
                  Stored(Series')[j] = InRetentionWindow(Series)[i]
      ]_vars

\* the permutations of 1..n
Perms(n) == { f \in [1..n -> 1..n] : \A i \in 1..n, j \in 1..n : f[i] = f[j] => i = j }

\* the series reached by adding the samples of q one after the other
RECURSIVE UpsertEach(_, _, _)
UpsertEach(SS, q, dp) ==
    IF q = <<>> THEN SS
    ELSE UpsertEach(UNION { { o.s : o \in { x \in add(S, Head(q).timestamp, Head(q).value, dp) :
                                            ~x.panic } } : S \in SS },
                    Tail(q), dp)

Observable(S) == <<Stored(S), S.total_samples, S.first_timestamp, last_timestamp(S)>>

\* C6: merge_samples(batch) leaves the same stored samples, total_samples,
\* first and last timestamps as an upsert of each element of the batch, in
\* any order, under the same duplicate policy (stated for batches of distinct
\* timestamps applied to a well-formed series)
C6_MergeEqualsUpserts ==
    [][ (/\ op'.name = "merge_samples"
         /\ ~panicked'
         /\ WellFormed(Series)
         /\ DistinctTimestamps(op'.samples))
        =>
        \A f \in Perms(Len(op'.samples)) :
            \A S \in UpsertEach({Series},
                                [i \in 1..Len(op'.samples) |-> op'.samples[f[i]]], policy) :
                Observable(S) = Observable(Series')
      ]_vars

\* C7: get_range(start, end) returns exactly the stored samples with
\* start <= timestamp <= end in ascending order, for every chunk layout, also
\* when start or end is in a gap or end is past the last chunk
C7_GetRangeExact ==
    (op.name = "get_range" /\ WellFormed(Series)) =>
        LET Wanted(x) == op.from <= x.timestamp /\ x.timestamp <= op.to
        IN op.out = SelectSeq(Stored(Series), Wanted)

\* C8: whenever the series is non-empty, first_timestamp is the first chunk's
\* first timestamp and last_sample.timestamp is the last chunk's last timestamp
C8_FirstAndLastMatchChunks ==
    (~panicked /\ StoredCount > 0) =>
        /\ first_timestamp = Chunk_first_timestamp(chunks[1])
        /\ last_sample # <<>>
        /\ last_sample[1].timestamp = Chunk_last_timestamp(chunks[Len(chunks)])

\* the timestamps stored in S
StoredTimestamps(S) == { Stored(S)[i].timestamp : i \in 1..Len(Stored(S)) }

\* C10: merge_samples returns one result per input sample and the result at
\* position k is the outcome for the k-th input sample, whatever the order
\* of the input and whatever timestamps are repeated in it
C10_MergeResultsInInputOrder ==
    [][ (op'.name = "merge_samples" /\ ~panicked')
        =>
        /\ Len(op'.res) = Len(op'.samples)
        /\ \A k \in 1..Len(op'.samples) :
              LET r == op'.res[k]
                  t == op'.samples[k].timestamp
              IN /\ r.tag \in {"Ok", "Duplicate", "TooOld", "Error"}
                 /\ r.tag = "Ok" => (r.ts = t /\ t \in StoredTimestamps(Series'))
                 /\ r.tag = "Duplicate" => policy = "Block"
                 /\ r.tag \in {"Error", "TooOld"} =>
                        (t \in StoredTimestamps(Series') => t \in StoredTimestamps(Series))
      ]_vars

\* C11: remove_range(start, end) deletes exactly the stored samples with
\* start <= timestamp <= end, leaves every other sample untouched and returns
\* the number of samples deleted
C11_RemoveRangeExact ==
    [][ (/\ op'.name = "remove_range"
         /\ ~panicked'
         /\ WellFormed(Series))
        =>
        LET Outside(x) == x.timestamp < op'.from \/ x.timestamp > op'.to
            kept == SelectSeq(Stored(Series), Outside)
        IN /\ Stored(Series') = kept
           /\ op'.deleted = Len(Stored(Series)) - Len(kept)
      ]_vars


\* ---- the commands and host events that maintain the indexes; the host runs
\* each of them to its end on its main thread

HasMetricName(labels) == \E k \in labels : LabelPairs[k].name = METRIC_NAME_LABEL

\* the label sets of the series stored in a DB
LiveLabelSets(db) ==
    { keyspace[db][k].labels : k \in { x \in Keys : keyspace[db][x] # NoSeries } }

\* the series stored in any DB
LiveSeries == { keyspace[d][k] : d \in DBs, k \in Keys } \ {NoSeries}

LiveIds == { s.id : s \in LiveSeries }

HostFrame ==
    /\ UNCHANGED <<ctx_lock, inner_lock, pc>>
    /\ UNCHANGED series_vars

\* the record of an operation, kept when the operation is observed
Observed(observe, e) == IF observe THEN e ELSE [NoEv EXCEPT !.high = e.high]

\* CREATE key RETENTION r LABELS ...: create_and_store_internal and
\* create_series
CreateSeriesWithOptions(db, key, labels, options_retention, limit, observe) ==
    /\ keyspace[db][key] = NoSeries
    /\ TIMESERIES_ID <= limit
    /\ LET first == TIMESERIES_ID
           id == IF first = 0 THEN 1 ELSE first
           map == get_timeseries_index_for_db(TIMESERIES_INDEX, db)
           duplicate == /\ HasMetricName(labels)
                        /\ posting_id_by_labels(map[db], labels) # NoId
           ts == [TimeSeries(id, labels, db) EXCEPT !.retention = options_retention]
       IN /\ TIMESERIES_ID' = id + 1
          /\ IF duplicate
             THEN /\ TIMESERIES_INDEX' = map
                  /\ UNCHANGED <<keyspace, marked>>
                  /\ ev' = Observed(observe, [Ev("create", db, key, id, "DUPLICATE_SERIES")
                                                 EXCEPT !.labels = labels])
             ELSE /\ TIMESERIES_INDEX' = [map EXCEPT ![db] = index_timeseries(@, ts, key)]
                  /\ keyspace' = [keyspace EXCEPT ![db][key] = ts]
                  /\ marked' = [marked EXCEPT ![db] = @ \ {id}]
                  /\ ev' = Observed(observe, [Ev("create", db, key, id, "OK")
                                                 EXCEPT !.labels = labels])
    /\ UNCHANGED <<INDEX_CURSORS, dumps>>
    /\ HostFrame

\* CREATE key LABELS ...: the retention of the configuration is 0
CreateSeries(db, key, labels, limit, observe) ==
    CreateSeriesWithOptions(db, key, labels, 0, limit, observe)

\* COPY from to: the copy callback of the data type
Copy(db, from, to, limit, observe) ==
    /\ keyspace[db][from] # NoSeries
    /\ keyspace[db][to] = NoSeries
    /\ TIMESERIES_ID <= limit
    /\ LET id == TIMESERIES_ID
           map == get_timeseries_index_for_db(TIMESERIES_INDEX, db)
           new_series == [keyspace[db][from] EXCEPT !.id = id]
       IN /\ TIMESERIES_ID' = id + 1
          /\ TIMESERIES_INDEX' = [map EXCEPT ![db] = index_timeseries(@, new_series, to)]
          /\ keyspace' = [keyspace EXCEPT ![db][to] = new_series]
          /\ marked' = [marked EXCEPT ![db] = @ \ {id}]
          /\ ev' = Observed(observe, Ev("copy", db, to, id, "OK"))
    /\ UNCHANGED <<INDEX_CURSORS, dumps>>
    /\ HostFrame

\* DUMP key: the payload keeps the id and the labels of the series
Dump(db, key, observe) ==
    /\ keyspace[db][key] # NoSeries
    /\ Cardinality(dumps) < MaxDumps
    /\ dumps' = dumps \cup { [id |-> keyspace[db][key].id,
                              labels |-> keyspace[db][key].labels] }
    /\ ev' = Observed(observe, Ev("dump", db, key, keyspace[db][key].id, "OK"))
    /\ UNCHANGED <<keyspace, TIMESERIES_INDEX, TIMESERIES_ID, INDEX_CURSORS, marked>>
    /\ HostFrame

\* RESTORE key payload: handle_key_restore
Restore(db, key, payload, observe) ==
    /\ keyspace[db][key] = NoSeries
    /\ payload \in dumps
    /\ LET series == TimeSeries(payload.id, payload.labels, db)
           map == get_timeseries_index_for_db(TIMESERIES_INDEX, db)
       IN /\ keyspace' = [keyspace EXCEPT ![db][key] = series]
          /\ TIMESERIES_INDEX' = [map EXCEPT ![db] = reindex_timeseries(@, series, key)]
          /\ marked' = [marked EXCEPT ![db] = @ \ {series.id}]
          /\ ev' = Observed(observe, Ev("restore", db, key, series.id, "OK"))
    /\ UNCHANGED <<TIMESERIES_ID, INDEX_CURSORS, dumps>>
    /\ HostFrame

\* DEL key: the unlink callback of the data type, then the del event
DeleteKey(db, key, observe) ==
    /\ keyspace[db][key] # NoSeries
    /\ LET series == keyspace[db][key]
           unlinked == [get_timeseries_index_for_db(TIMESERIES_INDEX, series._db)
                           EXCEPT ![series._db] = remove_timeseries(@, series)]
           map == get_timeseries_index_for_db(unlinked, db)
           id == id_for_key(map[db], key)
       IN /\ TIMESERIES_INDEX' = [map EXCEPT ![db] = mark_key_as_stale(@, key)]
          /\ marked' = IF id = NoId THEN marked
                       ELSE [marked EXCEPT ![db] = @ \cup {id}]
          /\ ev' = Observed(observe, Ev("del", db, key, id, "OK"))
    /\ keyspace' = [keyspace EXCEPT ![db][key] = NoSeries]
    /\ UNCHANGED <<TIMESERIES_ID, INDEX_CURSORS, dumps>>
    /\ HostFrame

\* FLUSHDB: on_flush_event with the number of one DB
FlushDb(db, observe) ==
    /\ keyspace' = [keyspace EXCEPT ![db] = [k \in Keys |-> NoSeries]]
    /\ TIMESERIES_INDEX' = MapRemove(TIMESERIES_INDEX, db)
    /\ TIMESERIES_ID' = IF db \in DOMAIN TIMESERIES_INDEX
                           /\ DOMAIN TIMESERIES_INDEX = {db}
                        THEN 0 ELSE TIMESERIES_ID
    /\ marked' = [marked EXCEPT ![db] = {}]
    /\ ev' = Observed(observe, Ev("flushdb", db, "", NoId, "OK"))
    /\ UNCHANGED <<INDEX_CURSORS, dumps>>
    /\ HostFrame

\* FLUSHALL: on_flush_event with dbnum -1
FlushAll(observe) ==
    /\ keyspace' = [d \in DBs |-> [k \in Keys |-> NoSeries]]
    /\ TIMESERIES_INDEX' = [d \in {} |-> Postings_default]
    /\ TIMESERIES_ID' = 0
    /\ marked' = [d \in DBs |-> {}]
    /\ ev' = Observed(observe, Ev("flushall", 0, "", NoId, "OK"))
    /\ UNCHANGED <<INDEX_CURSORS, dumps>>
    /\ HostFrame

\* SWAPDB a b: the host swaps the keyspaces, on_swap_db_event the indexes
SwapDb(from_db, to_db, observe) ==
    /\ from_db # to_db
    /\ LET map == get_timeseries_index_for_db(
                      get_timeseries_index_for_db(TIMESERIES_INDEX, from_db), to_db)
           swapped == Postings_swap(map[from_db], map[to_db])
       IN TIMESERIES_INDEX' = [map EXCEPT ![from_db] = swapped.self,
                                          ![to_db] = swapped.other]
    /\ keyspace' = [keyspace EXCEPT ![from_db] = keyspace[to_db],
                                    ![to_db] = keyspace[from_db]]
    /\ marked' = [marked EXCEPT ![from_db] = marked[to_db],
                                ![to_db] = marked[from_db]]
    /\ ev' = Observed(observe, Ev("swapdb", from_db, "", NoId, "OK"))
    /\ UNCHANGED <<TIMESERIES_ID, INDEX_CURSORS, dumps>>
    /\ HostFrame

\* a key loaded from the snapshot at startup: handle_loaded
Loaded(db, key, payload, observe) ==
    /\ ev.name \in {"none", "loaded"}
    /\ keyspace[db][key] = NoSeries
    /\ payload.id \notin LiveIds
    /\ LET series == TimeSeries(payload.id, payload.labels, db)
           map == get_timeseries_index_for_db(TIMESERIES_INDEX, db)
       IN /\ keyspace' = [keyspace EXCEPT ![db][key] = series]
          /\ IF ~has_id(map[db], series.id)
             THEN /\ TIMESERIES_INDEX' = [map EXCEPT ![db] = index_timeseries(@, series, key)]
                  /\ TIMESERIES_ID' = Max2(TIMESERIES_ID, series.id)
             ELSE /\ TIMESERIES_INDEX' = map
                  /\ UNCHANGED TIMESERIES_ID
          /\ ev' = Observed(observe, Ev("loaded", db, key, series.id, "OK"))
    /\ dumps' = dumps \cup {payload}
    /\ UNCHANGED <<INDEX_CURSORS, marked>>
    /\ HostFrame

\* one tick of the background stale sweep for a DB: remove_stale_series_internal
RemoveStaleSeries(db, observe) ==
    /\ db \in DOMAIN TIMESERIES_INDEX
    /\ \E r \in { remove_stale_ids(TIMESERIES_INDEX[db], INDEX_CURSORS[db], SweepBatch) } :
          /\ TIMESERIES_INDEX' = [TIMESERIES_INDEX EXCEPT ![db] = r.p]
          /\ INDEX_CURSORS' = [INDEX_CURSORS EXCEPT ![db] = r.next_key]
    /\ ev' = Observed(observe, Ev("remove_stale_series", db, "", NoId, "OK"))
    /\ UNCHANGED <<keyspace, TIMESERIES_ID, marked, dumps>>
    /\ HostFrame

\* a whole stale sweep of a DB: TimeSeriesIndex::remove_stale_ids
RemoveStaleIds(db, observe) ==
    /\ db \in DOMAIN TIMESERIES_INDEX
    /\ \E p \in { TimeSeriesIndex_remove_stale_ids(TIMESERIES_INDEX[db]) } :
          TIMESERIES_INDEX' = [TIMESERIES_INDEX EXCEPT ![db] = p]
    /\ ev' = Observed(observe, Ev("remove_stale_ids", db, "", NoId, "OK"))
    /\ UNCHANGED <<keyspace, TIMESERIES_ID, INDEX_CURSORS, marked, dumps>>
    /\ HostFrame

\* ---- create, delete, dump and restore, swapdb and the stale sweep
IndexLabelSets == { {1, 2}, {3} }

IndexIds == 2

InitIndex == InitSeries({ChunkSize}, {0}, {"KeepLast"})

\* series are created in DB 0; after a swapdb the clients of DB 1 dump,
\* delete and restore them and the sweep cleans the index of DB 1
NextIndex ==
    \/ \E key \in Keys, labels \in IndexLabelSets :
          CreateSeries(0, key, labels, IndexIds, FALSE)
    \/ \E key \in Keys : Dump(1, key, FALSE)
    \/ \E key \in Keys, payload \in dumps : Restore(1, key, payload, FALSE)
    \/ \E key \in Keys : DeleteKey(1, key, FALSE)
    \/ SwapDb(0, 1, FALSE)
    \/ RemoveStaleSeries(1, FALSE)
    \/ RemoveStaleIds(1, FALSE)

SpecIndex == InitIndex /\ [][NextIndex]_vars


\* the series a DB stores under some key with the given id
SeriesWithId(db, id) ==
    { keyspace[db][k] : k \in { x \in Keys : keyspace[db][x] # NoSeries
                                              /\ keyspace[db][x].id = id } }

\* C12: in every index, every id in all_postings is also in id_to_key and in
\* the bitmap of every label=value pair that the series with that id holds
C12_AllPostingsIndexed ==
    \A db \in DOMAIN TIMESERIES_INDEX :
        \A id \in TIMESERIES_INDEX[db].all_postings :
            /\ id \in DOMAIN TIMESERIES_INDEX[db].id_to_key
            /\ \A series \in SeriesWithId(db, id) :
                  \A k \in series.labels :
                      id \in label_index_get(TIMESERIES_INDEX[db], k)

\* C13: with no index operation in progress, no id is both in stale_ids and
\* in all_postings of an index
C13_StaleDisjointFromAllPostings ==
    \A db \in DOMAIN TIMESERIES_INDEX :
        TIMESERIES_INDEX[db].stale_ids \cap TIMESERIES_INDEX[db].all_postings = {}

\* the selector queries asked of an index: one label, a negated label, a
\* label and a negated label, two selectors
AndQueries ==
    { << And(<< Equal(k) >>) >> : k \in IndexKeys }
    \cup { << And(<< NotEqual(k) >>) >> : k \in IndexKeys }
    \cup { << And(<< Equal(a), NotEqual(b) >>) >> : a \in IndexKeys, b \in IndexKeys }
    \cup { << And(<< Equal(a) >>), And(<< Equal(b) >>) >> : a \in IndexKeys, b \in IndexKeys }

\* an Or of two labels
OrQueries ==
    { << Or(<< << Equal(a) >>, << Equal(b) >> >>) >> : a \in IndexKeys, b \in IndexKeys }

\* C14: an id that has been marked stale and not indexed since is returned by
\* no selector query, whatever part of the stale sweep has run
C14_StaleIdsNeverReturned ==
    \A db \in DOMAIN TIMESERIES_INDEX :
        /\ \A q \in AndQueries :
              postings_for_selectors(TIMESERIES_INDEX[db], q) \cap marked[db] = {}
        /\ \A q \in OrQueries :
              postings_for_selectors(TIMESERIES_INDEX[db], q) \cap marked[db] = {}

\* C15: a whole stale sweep run on the result of a whole stale sweep changes
\* nothing in label_index, id_to_key, all_postings and stale_ids
C15_StaleSweepIdempotent ==
    \A db \in DOMAIN TIMESERIES_INDEX :
        LET once == TimeSeriesIndex_remove_stale_ids(TIMESERIES_INDEX[db])
        IN TimeSeriesIndex_remove_stale_ids(once) = once

\* ---- a snapshot is loaded at startup, then series are created
Payloads == { [id |-> i, labels |-> L] : i \in 1..MaxId, L \in { {3} } }

InitLoad == InitSeries({ChunkSize}, {0}, {"KeepLast"})

NextLoad ==
    \/ \E db \in DBs, key \in Keys, payload \in Payloads : Loaded(db, key, payload, TRUE)
    \/ \E db \in DBs, key \in Keys : CreateSeries(db, key, {2}, MaxId, TRUE)

SpecLoad == InitLoad /\ [][NextLoad]_vars

\* the ids of the series that came from the snapshot
LoadedIds == { payload.id : payload \in dumps }

\* C16: an id assigned to a new series after a load is strictly greater than
\* every loaded id
C16_NewIdAboveLoadedIds ==
    [][ ev'.name = "create" => \A id \in LoadedIds : ev'.id > id ]_vars

\* ---- create, copy, flushdb and flushall in any order
InitIds == InitSeries({ChunkSize}, {0}, {"KeepLast"})

NextIds ==
    \/ \E db \in DBs, key \in Keys, labels \in { {2}, {3} } :
          CreateSeries(db, key, labels, MaxId, TRUE)
    \/ \E db \in DBs, from \in Keys, to \in Keys : Copy(db, from, to, MaxId, TRUE)
    \/ \E db \in DBs : FlushDb(db, TRUE)
    \/ FlushAll(TRUE)

SpecIds == InitIds /\ [][NextIds]_vars

\* C17: the id given to a created or copied series is strictly greater than
\* every id given out before, and is the id of no series stored in any DB
C17_IdsStrictlyIncrease ==
    [][ ev'.name \in {"create", "copy"}
        => /\ ev'.id > ev.high
           /\ ev'.id \notin LiveIds ]_vars

\* ---- CREATE with a metric name, and DEL
\* the label sets created: a metric name, alone or with a job
MetricLabelSets == { L \in LabelSets : HasMetricName(L) /\ L \subseteq {1, 2, 3} }

InitCreate == InitSeries({ChunkSize}, {0}, {"KeepLast"})

NextCreate ==
    \/ \E db \in DBs, key \in Keys, labels \in MetricLabelSets :
          CreateSeries(db, key, labels, MaxId, TRUE)
    \/ \E db \in DBs, key \in Keys : DeleteKey(db, key, TRUE)

SpecCreate == InitCreate /\ [][NextCreate]_vars

\* C18: a CREATE with a metric name is rejected exactly when the index of
\* its DB holds a stored series with the same label set, and a rejected
\* CREATE changes neither the indexes nor the keyspace
C18_DuplicateSeriesRejected ==
    [][ ev'.name = "create"
        => /\ (ev'.res = "DUPLICATE_SERIES") <=> (ev'.labels \in LiveLabelSets(ev'.db))
           /\ ev'.res = "DUPLICATE_SERIES"
                => /\ keyspace' = keyspace
                   /\ TIMESERIES_INDEX' = TIMESERIES_INDEX ]_vars

\* ---- the retention trim on its worker thread, next to the host's commands
SeriesFrame == UNCHANGED series_vars

IndexFrame ==
    UNCHANGED <<keyspace, TIMESERIES_INDEX, TIMESERIES_ID, INDEX_CURSORS, marked, dumps, ev,
                series_metas, task_vars>>

\* the host takes its lock for the length of a command
HostBegin ==
    /\ pc[Host] = Idle
    /\ ctx_lock = "none"
    /\ ctx_lock' = Host
    /\ pc' = [pc EXCEPT ![Host] = Position("command", 0, 0)]
    /\ SeriesFrame /\ IndexFrame /\ UNCHANGED inner_lock

\* ADD key ts value, run by the host
HostAdd(ts, value, limit) ==
    /\ pc[Host].at = "command"
    /\ Add(ts, value, limit, TRUE)

HostEnd ==
    /\ pc[Host].at = "command"
    /\ ctx_lock' = "none"
    /\ pc' = [pc EXCEPT ![Host] = Idle]
    /\ SeriesFrame /\ IndexFrame /\ UNCHANGED inner_lock

\* a worker that goes on without waiting for the host's lock
TrimNoLock(t) ==
    /\ pc[t] = Idle
    /\ pc' = [pc EXCEPT ![t] = Position("locked", 0, 0)]
    /\ SeriesFrame /\ IndexFrame /\ UNCHANGED <<ctx_lock, inner_lock>>

\* let ctx_ = ctx.lock(): blocks until the host's lock is free
TrimLock(t) ==
    /\ pc[t] = Idle
    /\ ctx_lock = "none"
    /\ ctx_lock' = t
    /\ pc' = [pc EXCEPT ![t] = Position("locked", 0, 0)]
    /\ SeriesFrame /\ IndexFrame /\ UNCHANGED inner_lock

\* set_current_db and fetch_series_batch with the predicate of the trim; a
\* failed select or an empty batch returns, which drops the lock
TrimFetch(t) ==
    /\ pc[t].at = "locked"
    /\ \E selected \in BOOLEAN :
          IF selected /\ retention # 0 /\ ~Series_is_empty(Series)
          THEN /\ pc' = [pc EXCEPT ![t] = Position("fetched", 0, 0)]
               /\ UNCHANGED ctx_lock
          ELSE /\ pc' = [pc EXCEPT ![t] = Idle]
               /\ ctx_lock' = "none"
    /\ SeriesFrame /\ IndexFrame /\ UNCHANGED inner_lock

\* batch.par_mut().map(|series| series.trim())
TrimBatch(t, limit) ==
    /\ pc[t].at = "fetched"
    /\ TrimSeries(limit, TRUE)
    /\ pc' = [pc EXCEPT ![t] = Position("trimmed", 0, 0)]
    /\ IndexFrame /\ UNCHANGED <<ctx_lock, inner_lock>>

\* drop(ctx_)
TrimDrop(t) ==
    /\ pc[t].at = "trimmed"
    /\ ctx_lock' = "none"
    /\ pc' = [pc EXCEPT ![t] = Idle]
    /\ SeriesFrame /\ IndexFrame /\ UNCHANGED inner_lock

InitTrim == InitSeries({ChunkSize}, {0, Retention}, {"KeepLast"})

NextTrim ==
    \/ HostBegin
    \/ \E ts \in RetentionTimestamps : HostAdd(ts, 1, MaxSamples)
    \/ HostEnd
    \/ \E t \in Threads :
          \/ TrimLock(t)
          \/ TrimFetch(t)
          \/ TrimBatch(t, MaxSamples)
          \/ TrimDrop(t)

SpecTrim == InitTrim /\ [][NextTrim]_vars

\* the threads that hold the series of the keyspace for writing
SeriesWriters ==
    { t \in Threads : pc[t].at \in {"fetched", "trimmed"} }
        \cup { t \in {Host} : pc[t].at = "command" }

\* C19: a background trim holds the series (fetched it, is trimming it or has
\* trimmed it and not yet let go) only while its thread owns the lock of the
\* thread-safe context, so no host command and no second trim has the series
\* at the same time
C19_TrimHoldsKeyGuard ==
    /\ \A t \in Threads :
          pc[t].at \in {"locked", "fetched", "trimmed"} =>
              ctx_lock = t /\ pc[Host] = Idle
    /\ Cardinality(SeriesWriters) <= 1

\* a worker has trimmed samples away under the lock after the host wrote them
C19_Witness ==
    \E t \in Threads :
        /\ pc[t].at = "trimmed"
        /\ ctx_lock = t
        /\ op.name = "trim"
        /\ op.deleted >= 1

\* ---- swapdb step by step: TimeSeriesIndex::swap takes the write lock of its
\* own index, then the write lock of the other, then swaps the four fields
Quiescent == \A t \in Threads : pc[t] = Idle

\* the order of the four mem::swap calls of Postings::swap
FieldAfter ==
    [other_locked |-> "label_index", label_index |-> "id_to_key",
     id_to_key |-> "stale_ids", stale_ids |-> "all_postings"]

\* the host has swapped the two DBs and calls the swapdb hook:
\* swap_timeseries_index_dbs looks both indexes up, creating a missing one
SwapBegin(t, from_db, to_db) ==
    /\ pc[t] = Idle
    /\ from_db # to_db
    /\ TIMESERIES_INDEX' = get_timeseries_index_for_db(
                               get_timeseries_index_for_db(TIMESERIES_INDEX, from_db), to_db)
    /\ keyspace' = [keyspace EXCEPT ![from_db] = keyspace[to_db],
                                    ![to_db] = keyspace[from_db]]
    /\ marked' = [marked EXCEPT ![from_db] = marked[to_db],
                                ![to_db] = marked[from_db]]
    /\ pc' = [pc EXCEPT ![t] = Position("indexes", from_db, to_db)]
    /\ UNCHANGED <<TIMESERIES_ID, INDEX_CURSORS, dumps, ev, ctx_lock, inner_lock>>
    /\ SeriesFrame

\* let mut self_inner = self.inner.write()
SwapLockSelf(t) ==
    /\ pc[t].at = "indexes"
    /\ inner_lock[pc[t].from_db] = "none"
    /\ inner_lock' = [inner_lock EXCEPT ![pc[t].from_db] = t]
    /\ pc' = [pc EXCEPT ![t].at = "self_locked"]
    /\ SeriesFrame /\ IndexFrame /\ UNCHANGED ctx_lock

\* let mut other_inner = other.inner.write()
SwapLockOther(t) ==
    /\ pc[t].at = "self_locked"
    /\ inner_lock[pc[t].to_db] = "none"
    /\ inner_lock' = [inner_lock EXCEPT ![pc[t].to_db] = t]
    /\ pc' = [pc EXCEPT ![t].at = "other_locked"]
    /\ SeriesFrame /\ IndexFrame /\ UNCHANGED ctx_lock

\* one std::mem::swap of Postings::swap
SwapField(t) ==
    /\ pc[t].at \in DOMAIN FieldAfter
    /\ LET field == FieldAfter[pc[t].at]
           self == pc[t].from_db
           other == pc[t].to_db
       IN /\ TIMESERIES_INDEX' =
                 [TIMESERIES_INDEX EXCEPT ![self][field] = TIMESERIES_INDEX[other][field],
                                          ![other][field] = TIMESERIES_INDEX[self][field]]
          /\ pc' = [pc EXCEPT ![t].at = field]
    /\ UNCHANGED <<keyspace, TIMESERIES_ID, INDEX_CURSORS, marked, dumps, ev>>
    /\ SeriesFrame /\ UNCHANGED <<ctx_lock, inner_lock>>

\* the two write guards go out of scope
SwapUnlock(t) ==
    /\ pc[t].at = "all_postings"
    /\ inner_lock' = [inner_lock EXCEPT ![pc[t].from_db] = "none", ![pc[t].to_db] = "none"]
    /\ pc' = [pc EXCEPT ![t] = Idle]
    /\ SeriesFrame /\ IndexFrame /\ UNCHANGED ctx_lock

\* CREATE between two swaps
SwapCreate(db, key, labels, limit) ==
    /\ Quiescent
    /\ CreateSeries(db, key, labels, limit, FALSE)

SwapIds == 2

InitSwap == InitSeries({ChunkSize}, {0}, {"KeepLast"})

NextSwap ==
    \/ \E db \in DBs, key \in Keys, labels \in IndexLabelSets :
          SwapCreate(db, key, labels, SwapIds)
    \/ \E t \in Threads :
          \/ \E from_db \in DBs, to_db \in DBs : SwapBegin(t, from_db, to_db)
          \/ SwapLockSelf(t)
          \/ SwapLockOther(t)
          \/ SwapField(t)
          \/ SwapUnlock(t)

SpecSwap == InitSwap /\ [][NextSwap]_vars

\* the index of a DB, empty when the DB has none yet
IndexOf(db) ==
    IF db \in DOMAIN TIMESERIES_INDEX THEN TIMESERIES_INDEX[db] ELSE Postings_default

\* the four fields of a complete index belong together: the same ids in
\* all_postings, in id_to_key and, taken together, in the label bitmaps
Coherent(P) ==
    /\ P.all_postings = DOMAIN P.id_to_key
    /\ UNION { label_index_get(P, k) : k \in IndexKeys } = P.all_postings
    /\ P.stale_ids \subseteq P.all_postings

\* the index of a DB holds exactly the series of the keyspace of that DB
IndexMatchesKeyspace(db) ==
    LET P == IndexOf(db)
        live == { key \in Keys : keyspace[db][key] # NoSeries }
    IN /\ P.all_postings = { keyspace[db][key].id : key \in live }
       /\ \A key \in live : P.id_to_key[keyspace[db][key].id] = key
       /\ \A k \in IndexKeys :
             label_index_get(P, k) =
                 { keyspace[db][key].id : key \in { x \in live : k \in keyspace[db][x].labels } }
       /\ P.stale_ids = {}

\* two swaps that each hold the lock of their own index and wait for the lock
\* the other holds
BlockedForever ==
    \E t \in Threads, u \in Threads :
        /\ t # u
        /\ pc[t].at = "self_locked"
        /\ pc[u].at = "self_locked"
        /\ inner_lock[pc[t].to_db] = u
        /\ inner_lock[pc[u].to_db] = t

\* after every finished swap each DB's index holds what the other held before,
\* that is, what belongs to the keyspace the DB now has
C20_SwapExchanges == Quiescent => \A db \in DBs : IndexMatchesKeyspace(db)

\* whoever can take the lock of an index sees all four fields from one index
C20_NoPartialSwap ==
    \A db \in DOMAIN TIMESERIES_INDEX :
        inner_lock[db] = "none" => Coherent(TIMESERIES_INDEX[db])

handle_key_move_keep(map, series, key, old_db, new_db) ==
    LET moved == [series EXCEPT !._db = new_db]
        indexes == get_timeseries_index_for_db(map, new_db)
    IN [map |-> [indexes EXCEPT ![new_db] = index_timeseries(@, moved, key)],
        series |-> moved,
        selected |-> new_db]

\* handle_key_move: new_db is the selected DB; the series gets _db = new_db,
\* leaves the index of old_db and enters the index of new_db; the last
\* set_current_db selects new_db again
handle_key_move(map, series, key, old_db, new_db) ==
    LET moved == [series EXCEPT !._db = new_db]
        old_selected == get_timeseries_index_for_db(map, old_db)
        removed == [old_selected EXCEPT ![old_db] = remove_timeseries(@, moved)]
        new_selected == get_timeseries_index_for_db(removed, new_db)
    IN [map |-> [new_selected EXCEPT ![new_db] = index_timeseries(@, moved, key)],
        series |-> moved,
        selected |-> new_db]

\* the host moves the value; whether it runs the unlink callback of the data
\* type on the source DB first is the host's choice. move_from stores the
\* source DB in MOVE_FROM_DB, move_to takes it out again and runs the handler
MoveKey(from_db, to_db, key, observe) ==
    /\ from_db # to_db
    /\ keyspace[from_db][key] # NoSeries
    /\ keyspace[to_db][key] = NoSeries
    /\ \E unlink \in BOOLEAN :
          LET series == keyspace[from_db][key]
              unlinked ==
                  IF unlink
                  THEN [get_timeseries_index_for_db(TIMESERIES_INDEX, series._db)
                           EXCEPT ![series._db] = remove_timeseries(@, series)]
                  ELSE TIMESERIES_INDEX
              MOVE_FROM_DB == from_db
              handled == handle_key_move(unlinked, series, key, MOVE_FROM_DB, to_db)
          IN /\ TIMESERIES_INDEX' = handled.map
             /\ keyspace' = [keyspace EXCEPT ![from_db][key] = NoSeries,
                                             ![to_db][key] = handled.series]
             /\ ev' = Observed(observe, Ev("move", handled.selected, key, series.id, "OK"))
    /\ UNCHANGED <<TIMESERIES_ID, INDEX_CURSORS, marked, dumps>>
    /\ HostFrame

MoveIds == 2

InitMove == InitSeries({ChunkSize}, {0}, {"KeepLast"})

NextMove ==
    \/ \E db \in DBs, key \in Keys, labels \in IndexLabelSets :
          CreateSeries(db, key, labels, MoveIds, FALSE)
    \/ \E from_db \in DBs, to_db \in DBs, key \in Keys : MoveKey(from_db, to_db, key, TRUE)
    \/ \E db \in DBs, key \in Keys : DeleteKey(db, key, FALSE)
    \/ \E from_db \in DBs, to_db \in DBs : SwapDb(from_db, to_db, FALSE)

SpecMove == InitMove /\ [][NextMove]_vars

\* the index of the DB knows the id: by key, in all_postings or in a bitmap
IndexHolds(P, id) ==
    \/ id \in DOMAIN P.id_to_key
    \/ id \in P.all_postings
    \/ \E k \in IndexKeys : id \in label_index_get(P, k)

\* the index of the DB holds the series under the id and the key
IndexedAs(P, id, key, labels) ==
    /\ id \in DOMAIN P.id_to_key
    /\ P.id_to_key[id] = key
    /\ id \in P.all_postings
    /\ \A k \in labels : id \in label_index_get(P, k)

\* C21: after move_from in DB A and move_to in DB B the entry of the series is
\* gone from the index of A and is in the index of B under the same id and
\* key, and the DB selected when the handler returns is B
C21_MoveTransfersIndexEntry ==
    [][ev'.name = "move" =>
          \E A \in DBs, B \in DBs :
              /\ keyspace[A][ev'.key] # NoSeries
              /\ keyspace'[A][ev'.key] = NoSeries
              /\ keyspace'[B][ev'.key] # NoSeries
              /\ keyspace[A][ev'.key].id = ev'.id
              /\ keyspace'[B][ev'.key].id = ev'.id
              /\ A \notin DOMAIN TIMESERIES_INDEX' \/ ~IndexHolds(TIMESERIES_INDEX'[A], ev'.id)
              /\ B \in DOMAIN TIMESERIES_INDEX'
              /\ IndexedAs(TIMESERIES_INDEX'[B], ev'.id, ev'.key, keyspace'[B][ev'.key].labels)
              /\ ev'.db = B]_vars

\* a series with two labels has been moved to DB 1 and is indexed there
C21_Witness ==
    /\ ev.name = "move"
    /\ ev.db = 1
    /\ keyspace[1][ev.key] # NoSeries
    /\ keyspace[1][ev.key].labels = {1, 2}
    /\ 1 \in DOMAIN TIMESERIES_INDEX
    /\ IndexedAs(TIMESERIES_INDEX[1], ev.id, ev.key, {1, 2})

\* ---- conjunctions and disjunctions of filter lists over one index
\* the filters asked: on a label with several values and on the metric name
QueryFilters ==
    { Equal(1), NotEqual(1), Equal(2), NotEqual(3),
      LabelFilter("job", "Equal", ""), LabelFilter("job", "NotEqual", ""),
      RegexEqual("job", ".+"), RegexNotEqual("job", ".+"), RegexEqual("job", ".*") }

\* the filter lists asked: one filter, or two
FilterLists ==
    { << f >> : f \in QueryFilters } \cup { << f, g >> : f \in QueryFilters, g \in {Equal(3), NotEqual(2)} }

\* C22: for filter lists A and B over one index, the postings of the
\* conjunction (the filters of A and of B in one list, in either order) are
\* the intersection of the postings of A and of B, and the postings of the
\* disjunction (Or of the two lists) are their union
C22_AndIntersectsOrUnites ==
    \A db \in DOMAIN TIMESERIES_INDEX :
        \A A \in FilterLists, B \in FilterLists :
            LET P == TIMESERIES_INDEX[db]
                a == postings_for_label_filters(P, A)
                b == postings_for_label_filters(P, B)
            IN /\ postings_for_label_filters(P, A \o B) = a \cap b
               /\ postings_for_label_filters(P, B \o A) = a \cap b
               /\ process_or_matchers(P, << A, B >>) = a \cup b

\* ---- an index filled label by label, and the regex shortcuts
add_posting_for_label_value(P, ts_id, k) ==
    add_posting_for_label_value_internal([P EXCEPT !.all_postings = @ \cup {ts_id}], ts_id, k)

RECURSIVE add_series(_, _, _)
add_series(P, series_ref, labels) ==
    IF labels = {} THEN P
    ELSE LET k == CHOOSE x \in labels : TRUE
         IN add_series(add_posting_for_label_value(P, series_ref, k), series_ref, labels \ {k})

\* the series of the example, and one that holds the label i with no value
MatchLabelSets == { {7}, {7, 5}, {7, 6}, {8}, {7, 4} }

MatchIds == 4

\* the next series enters the index of the DB
AddSeries(db, labels, limit) ==
    /\ LET map == get_timeseries_index_for_db(TIMESERIES_INDEX, db)
           series_ref == Cardinality(map[db].all_postings) + 1
       IN /\ series_ref <= limit
          /\ TIMESERIES_INDEX' = [map EXCEPT ![db] = add_series(@, series_ref, labels)]
    /\ UNCHANGED <<keyspace, TIMESERIES_ID, INDEX_CURSORS, marked, dumps, ev>>
    /\ HostFrame

InitMatch == InitSeries({ChunkSize}, {0}, {"KeepLast"})

NextMatch == \E labels \in MatchLabelSets : AddSeries(0, labels, MatchIds)

SpecMatch == InitMatch /\ [][NextMatch]_vars

\* the ids of the index that hold the label with a value that is not empty
HoldsValueOf(P, label) ==
    UNION { P.label_index[k] :
              k \in { x \in DOMAIN P.label_index :
                        LabelPairs[x].name = label /\ LabelPairs[x].value # "" } }

\* C23: {n=~".*", i!~".+"} selects exactly the series that lack the label i or
\* hold it with an empty value (of {n=1}, {n=1,i=a}, {n=1,i=b}, {n=2}: the
\* first and the last), and the positive .* matcher changes nothing
C23_RegexShortcuts ==
    \A db \in DOMAIN TIMESERIES_INDEX :
        LET P == TIMESERIES_INDEX[db]
            selected == postings_for_label_filters(P,
                            << RegexEqual("n", ".*"), RegexNotEqual("i", ".+") >>)
        IN /\ selected = P.all_postings \ HoldsValueOf(P, "i")
           /\ selected = postings_for_label_filters(P, << RegexNotEqual("i", ".+") >>)

\* ------------------------------------------------- aggregators/handlers.rs
\* f64::NAN; no sample of the model has this value
NaN == 0 - 1

\* Aggregator: the kind and the handler's cell, a sequence holding the
\* Option's value
NewAggregator(kind) ==
    [kind |-> kind, cell |-> IF kind \in {"Sum", "Count"} THEN << 0 >> ELSE << >>]

Aggregator_update(a, value) ==
    CASE a.kind = "Sum" -> [a EXCEPT !.cell = << @[1] + value >>]
      [] a.kind = "Count" -> [a EXCEPT !.cell = << @[1] + 1 >>]
      [] a.kind = "Max" ->
            [a EXCEPT !.cell = IF @ = << >> THEN << value >> ELSE << Max2(@[1], value) >>]
      [] a.kind = "Last" -> [a EXCEPT !.cell = << value >>]

Aggregator_reset(a) == NewAggregator(a.kind)

Aggregator_current(a) == a.cell

Aggregator_empty_value(a) == IF a.kind \in {"Sum", "Count"} THEN 0 ELSE NaN

Aggregator_finalize(a) ==
    IF Aggregator_current(a) # << >> THEN Aggregator_current(a)[1]
    ELSE Aggregator_empty_value(a)

\* --------------------------------------------------- aggregators/mod.rs
BucketTimestamp_calculate(bucket_ts, ts, time_delta) ==
    CASE bucket_ts = "Start" -> ts
      [] bucket_ts = "Mid" -> ts + (time_delta \div 2)
      [] bucket_ts = "End" -> ts + time_delta

get_aligned_timestamp(alignment, start, end) ==
    CASE alignment.kind = "Default" -> 0
      [] alignment.kind = "Start" -> start
      [] alignment.kind = "End" -> end
      [] alignment.kind = "Timestamp" -> alignment.ts

\* ------------------------------------------------ aggregators/iterator.rs
AggregationOptions(aggregation, bucket_duration, timestamp_output, alignment, report_empty) ==
    [aggregation |-> aggregation, bucket_duration |-> bucket_duration,
     timestamp_output |-> timestamp_output, alignment |-> alignment,
     report_empty |-> report_empty]

AggregationHelper_new(options, align_timestamp) ==
    [align_timestamp |-> align_timestamp,
     report_empty |-> options.report_empty,
     aggregator |-> NewAggregator(options.aggregation),
     bucket_duration |-> options.bucket_duration,
     bucket_ts |-> options.timestamp_output,
     bucket_range_start |-> 0,
     bucket_range_end |-> 0,
     last_value |-> NaN,
     all_nans |-> TRUE,
     count |-> 0,
     empty_buckets |-> << >>]

calculate_bucket_start(h) ==
    BucketTimestamp_calculate(h.bucket_ts, h.bucket_range_start, h.bucket_duration)

advance_current_bucket(h) ==
    [h EXCEPT !.bucket_range_start = h.bucket_range_end,
              !.bucket_range_end = h.bucket_range_end + h.bucket_duration]

calculate_final_value(h) ==
    IF h.all_nans
    THEN IF h.count = 0 THEN Aggregator_empty_value(h.aggregator) ELSE NaN
    ELSE Aggregator_finalize(h.aggregator)

get_empty_bucket_value(h) ==
    IF h.aggregator.kind = "Last" THEN h.last_value
    ELSE Aggregator_empty_value(h.aggregator)

\* the bucket and the helper reset for the next one
finalize_current_bucket(h) ==
    [bucket |-> Sample(calculate_bucket_start(h), calculate_final_value(h)),
     helper |-> [h EXCEPT !.aggregator = Aggregator_reset(@),
                          !.count = 0,
                          !.all_nans = TRUE]]

update_value(h, value) ==
    IF value # NaN
    THEN [h EXCEPT !.aggregator = Aggregator_update(@, value),
                   !.last_value = value,
                   !.all_nans = FALSE,
                   !.count = @ + 1]
    ELSE [h EXCEPT !.count = @ + 1]

\* the remainder of Rust's %, which has the sign of the dividend
Rem(a, b) == IF a >= 0 THEN a % b ELSE 0 - ((0 - a) % b)

calc_bucket_start(h, ts) ==
    LET diff == ts - h.align_timestamp
        delta == h.bucket_duration
    IN ts - Rem(Rem(diff, delta) + delta, delta)

RECURSIVE EmptyBucketsFrom(_, _, _, _)
EmptyBucketsFrom(h, current_bucket_start, last_bucket_start, empty_value) ==
    IF current_bucket_start < last_bucket_start
    THEN << Sample(BucketTimestamp_calculate(h.bucket_ts, current_bucket_start, h.bucket_duration),
                   empty_value) >>
         \o EmptyBucketsFrom(h, current_bucket_start + h.bucket_duration,
                             last_bucket_start, empty_value)
    ELSE << >>

fill_empty_buckets_gap(h, gap_start, gap_end) ==
    [h EXCEPT !.empty_buckets =
        @ \o EmptyBucketsFrom(h, calc_bucket_start(h, gap_start + 1),
                              calc_bucket_start(h, gap_end), get_empty_bucket_value(h))]

update_bucket_timestamps(h, start_timestamp) ==
    LET start == Max2(calc_bucket_start(h, start_timestamp), 0)
    IN [h EXCEPT !.bucket_range_start = start,
                 !.bucket_range_end = start + h.bucket_duration]

\* the helper after the sample, and the bucket handed out, if any
update_sample(h, sample) ==
    IF sample.timestamp < h.bucket_range_end
    THEN [helper |-> update_value(h, sample.value), bucket |-> << >>]
    ELSE LET done == IF h.count > 0 THEN finalize_current_bucket(h)
                     ELSE [bucket |-> << >>, helper |-> h]
             closed == IF h.count > 0 THEN << done.bucket >> ELSE << >>
             h1 == done.helper
             gap == sample.timestamp - h1.bucket_range_end
             filled == IF gap >= h1.bucket_duration /\ h1.report_empty
                       THEN fill_empty_buckets_gap(h1, h1.bucket_range_end, sample.timestamp)
                       ELSE h1
             popped == gap >= h1.bucket_duration /\ h1.report_empty
                       /\ closed = << >> /\ filled.empty_buckets # << >>
             bucket == IF popped THEN << Head(filled.empty_buckets) >> ELSE closed
             h2 == IF popped THEN [filled EXCEPT !.empty_buckets = Tail(@)] ELSE filled
             h3 == IF gap >= h1.bucket_duration
                   THEN update_bucket_timestamps(h2, sample.timestamp)
                   ELSE advance_current_bucket(h2)
         IN [helper |-> update_value(h3, sample.value), bucket |-> bucket]

\* AggregateIterator::next_bucket, called until it answers None: the empty
\* buckets waiting, then the buckets closed by the samples, then the last one
RECURSIVE next_buckets(_, _)
next_buckets(h, inner) ==
    IF h.empty_buckets # << >>
    THEN << Head(h.empty_buckets) >>
         \o next_buckets([h EXCEPT !.empty_buckets = Tail(@)], inner)
    ELSE IF inner # << >>
    THEN LET step == update_sample(h, Head(inner))
         IN step.bucket \o next_buckets(step.helper, Tail(inner))
    ELSE IF h.count > 0 THEN << finalize_current_bucket(h).bucket >>
    ELSE << >>

\* AggregateIterator collected; with a bucket duration of zero the first
\* sample's calc_bucket_start takes a remainder by zero, which panics
Aggregated(out, panic) == [out |-> out, panic |-> panic]

aggregate(options, aligned_timestamp, samples) ==
    IF samples = << >> THEN Aggregated(<< >>, FALSE)
    ELSE IF options.bucket_duration = 0 THEN Aggregated(<< >>, TRUE)
    ELSE LET h == update_value(
                      update_bucket_timestamps(
                          AggregationHelper_new(options, aligned_timestamp),
                          samples[1].timestamp),
                      samples[1].value)
         IN Aggregated(next_buckets(h, Tail(samples)), FALSE)

\* ------------------------------------------------- series/range_utils.rs
aggregate_samples(samples, start_ts, end_ts, aggr_options) ==
    aggregate(aggr_options,
              get_aligned_timestamp(aggr_options.alignment, start_ts, end_ts),
              samples)

\* --------------------------------------------------- commands/arg_parse.rs
Parsed(ok, value) == [ok |-> ok, value |-> value]

\* an integer argument: the milliseconds, or an error below zero
parse_duration_arg(arg) == IF arg < 0 THEN Parsed(FALSE, 0) ELSE Parsed(TRUE, arg)

\* AGGREGATION aggregator bucketDuration [ALIGN a] [BUCKETTIMESTAMP bt] [EMPTY]
parse_aggregation_options(agg, duration_arg, alignment, bucket_ts, empty) ==
    LET bucket_duration == parse_duration_arg(duration_arg)
    IN IF ~bucket_duration.ok
       THEN Parsed(FALSE, AggregationOptions(agg, 0, bucket_ts, alignment, empty))
       ELSE Parsed(TRUE, AggregationOptions(agg, bucket_duration.value, bucket_ts,
                                            alignment, empty))

\* range_utils::get_range with check_retention, no filter and no COUNT: the
\* samples read, the bounds used and what the aggregation made of them
range_utils_get_range(S, from, to, aggr_options) ==
    LET start_timestamp == IF retention # 0 THEN Max2(get_min_timestamp(S), from) ELSE from
        end_timestamp == IF retention # 0 THEN Max2(start_timestamp, to) ELSE to
        range == get_range(S, start_timestamp, end_timestamp)
    IN [samples |-> range, from |-> start_timestamp, to |-> end_timestamp,
        result |-> aggregate_samples(range, start_timestamp, end_timestamp, aggr_options)]

\* bounds of the aggregation requests
MaxBucket == 3
DurationArgs == (0 - 1)..MaxBucket
Alignments == { [kind |-> "Default", ts |-> 0], [kind |-> "Start", ts |-> 0],
                [kind |-> "End", ts |-> 0] }
Aggregations == {"Sum", "Max"}
BucketTimestamps == {"Start", "End"}
\* a range that ends inside the stored timestamps and one that ends past them
RangeEnds == {MaxTs - 1, MaxTs + 1}

\* RANGE key from to AGGREGATION ...: op holds the samples aggregated, the
\* bounds used, the options parsed (res) and the buckets answered (out)
RangeAggregated(from, to, agg, duration_arg, alignment, bucket_ts, empty) ==
    /\ ~panicked
    /\ \E parsed \in {parse_aggregation_options(agg, duration_arg, alignment, bucket_ts, empty)} :
          IF ~parsed.ok
          THEN /\ op' = Op("range_error", <<>>, from, to, << parsed.value >>, <<>>, 0)
               /\ UNCHANGED panicked
          ELSE \E got \in {range_utils_get_range(Series, from, to, parsed.value)} :
                  /\ op' = Op("range", got.samples, got.from, got.to,
                              << parsed.value >>, got.result.out, 0)
                  /\ panicked' = got.result.panic
    /\ UNCHANGED <<chunks, total_samples, first_timestamp, last_sample,
                   chunk_size_bytes, retention, policy>>
    /\ UNCHANGED index_vars

\* ---- ADD and aggregated RANGE
InitAggregate == InitSeries({ChunkSize}, {0}, {"KeepLast"})

NextAggregate ==
    \/ \E ts \in Timestamps : Add(ts, ts, MaxSamples, TRUE)
    \/ \E from \in {0}, to \in RangeEnds, agg \in Aggregations,
          duration_arg \in DurationArgs, alignment \in Alignments,
          bucket_ts \in BucketTimestamps, empty \in BOOLEAN :
          RangeAggregated(from, to, agg, duration_arg, alignment, bucket_ts, empty)

SpecAggregate == InitAggregate /\ [][NextAggregate]_vars

\* the values of the samples of q whose timestamp is in [start, start + duration)
ValuesIn(q, start, duration) ==
    LET inside == SelectSeq(q, LAMBDA s : start <= s.timestamp /\ s.timestamp < start + duration)
    IN [i \in 1..Len(inside) |-> inside[i].value]

RECURSIVE MaxSeq(_)
MaxSeq(q) == IF Len(q) = 1 THEN q[1] ELSE Max2(q[1], MaxSeq(Tail(q)))

Reduced(agg, values) ==
    CASE agg = "Sum" -> SumSeq(values)
      [] agg = "Max" -> IF values = << >> THEN NaN ELSE MaxSeq(values)

\* start = t - ((t - align) mod duration), the modulo not negative
BucketStartOf(t, align, duration) == t - ((t - align) % duration)

\* C24: buckets are half-open [start, start + duration): every bucket answered
\* holds the reducer over exactly the samples with start <= t < start +
\* duration, where start = t - ((t - align) mod duration), and every sample
\* aggregated is in the bucket that starts there
C24_BucketsHalfOpenAndAligned ==
    [][ (op'.name = "range" /\ ~panicked')
        =>
        LET options == op'.res[1]
            duration == options.bucket_duration
            align == get_aligned_timestamp(options.alignment, op'.from, op'.to)
            StartOf(i) == IF options.timestamp_output = "End"
                          THEN op'.out[i].timestamp - duration
                          ELSE op'.out[i].timestamp
        IN /\ \A i \in 1..Len(op'.out) :
                 /\ StartOf(i) = BucketStartOf(StartOf(i), align, duration)
                 /\ op'.out[i].value =
                        Reduced(options.aggregation, ValuesIn(op'.samples, StartOf(i), duration))
           /\ \A k \in 1..Len(op'.samples) :
                 \E i \in 1..Len(op'.out) :
                     StartOf(i) = BucketStartOf(op'.samples[k].timestamp, align, duration)
      ]_vars

\* C28: the bucket duration is positive: a request with a bucket duration of
\* zero is answered with an error before any aggregation runs, so no range is
\* aggregated with a zero duration and calc_bucket_start never divides by zero
C28_ZeroBucketRejected ==
    [][ op'.name = "range"
        => (op'.res[1].bucket_duration > 0 /\ ~panicked') ]_vars

\* ------------------------------------------------------ commands/mrange.rs
\* SeriesMeta: the series stands for its labels and for the samples its
\* iterator yields, in timestamp order
SeriesMeta(source_key, labels, samples) ==
    [source_key |-> source_key, labels |-> labels, samples |-> samples,
     group_label_value |-> << >>]

MRangeSeriesResult(key, group_label_value, samples) ==
    [key |-> key, group_label_value |-> group_label_value, samples |-> samples]

RangeGroupingOptions(group_label, aggregation) ==
    [group_label |-> group_label, aggregation |-> aggregation]

\* what a multi-series query asks for; grouping and aggregation are Options
MRangeOptions(grouping, aggregation, is_reverse) ==
    [grouping |-> grouping, aggregation |-> aggregation, is_reverse |-> is_reverse]

\* TimeSeries::label_value: the value of the label, if the series holds it
label_value(labels, name) ==
    LET held == { k \in labels : LabelPairs[k].name = name }
    IN IF held = {} THEN << >> ELSE << LabelPairs[CHOOSE k \in held : TRUE].value >>

collect_group_labels(metas, grouping) ==
    [i \in 1..Len(metas) |->
        [metas[i] EXCEPT !.group_label_value = label_value(metas[i].labels, grouping.group_label)]]

\* MultiSeriesSampleIter: the k-way merge of the iterators by timestamp, the
\* earlier iterator first among equal timestamps
RECURSIVE MultiSeriesSampleIter(_)
MultiSeriesSampleIter(iterators) ==
    LET live == { i \in 1..Len(iterators) : iterators[i] # << >> }
    IN IF live = {} THEN << >>
       ELSE LET least == CHOOSE i \in live :
                            \A j \in live :
                                \/ iterators[i][1].timestamp < iterators[j][1].timestamp
                                \/ (iterators[i][1].timestamp = iterators[j][1].timestamp /\ i <= j)
            IN << iterators[least][1] >>
               \o MultiSeriesSampleIter([iterators EXCEPT ![least] = Tail(@)])

\* range_utils::group_reduce, the loop over the samples after the first
RECURSIVE group_reduce_rest(_, _, _, _)
group_reduce_rest(samples, aggregator, current, result) ==
    IF samples = << >>
    THEN Append(result, Sample(current.timestamp, Aggregator_finalize(aggregator)))
    ELSE LET next == Head(samples)
         IN IF next.timestamp = current.timestamp
            THEN group_reduce_rest(Tail(samples), Aggregator_update(aggregator, next.value),
                                   current, result)
            ELSE group_reduce_rest(Tail(samples), Aggregator_update(aggregator, next.value),
                                   next,
                                   Append(result, Sample(current.timestamp,
                                                         Aggregator_finalize(aggregator))))

group_reduce(samples, aggregation) ==
    LET numbers == SelectSeq(samples, LAMBDA s : s.value # NaN)
    IN IF numbers = << >> THEN << >>
       ELSE group_reduce_rest(Tail(numbers),
                              Aggregator_update(NewAggregator(aggregation), numbers[1].value),
                              numbers[1], << >>)

\* the label values that have a group, and the series of each in meta order
GroupValues(metas) ==
    { metas[i].group_label_value[1] :
        i \in { j \in 1..Len(metas) : metas[j].group_label_value # << >> } }

group_series_by_label_internal(metas) ==
    [v \in GroupValues(metas) |->
        SelectSeq(metas, LAMBDA meta : meta.group_label_value = << v >>)]

get_sample_iterators(series_metas_of_group) ==
    [i \in 1..Len(series_metas_of_group) |-> series_metas_of_group[i].samples]

get_grouped_raw_samples(series_metas_of_group, grouping_options) ==
    group_reduce(MultiSeriesSampleIter(get_sample_iterators(series_metas_of_group)),
                 grouping_options.aggregation)

\* the query runs from 0 and covers every timestamp of the model
QueryEnd == MaxTs + 1

aggregate_grouped_samples(group, aggregation_options) ==
    aggregate_samples(MultiSeriesSampleIter(get_sample_iterators(group)),
                      0, QueryEnd, aggregation_options).out

\* the group's map is a hash map: order is the order its iteration takes
handle_aggregation_and_grouping(metas, groupings, aggregations, order) ==
    LET grouped_series_map == group_series_by_label_internal(metas)
    IN [i \in 1..Len(order) |->
          MRangeSeriesResult(groupings.group_label \o "=" \o order[i], << order[i] >>,
              group_reduce(aggregate_grouped_samples(grouped_series_map[order[i]], aggregations),
                           groupings.aggregation))]

handle_grouping(metas, grouping, order) ==
    LET grouped_series_map == group_series_by_label_internal(metas)
    IN [i \in 1..Len(order) |->
          MRangeSeriesResult(grouping.group_label \o "=" \o order[i], << >>,
              get_grouped_raw_samples(grouped_series_map[order[i]], grouping))]

\* get_multi_series_range: range_utils::get_range of every series
handle_basic(metas, options) ==
    [i \in 1..Len(metas) |->
        MRangeSeriesResult(metas[i].source_key, metas[i].group_label_value,
            IF options.aggregation = << >> THEN metas[i].samples
            ELSE aggregate_samples(metas[i].samples, 0, QueryEnd,
                                   options.aggregation[1]).out)]

process_mrange_command(metas, options, is_clustered, order) ==
    LET tagged == IF options.grouping # << >>
                  THEN collect_group_labels(metas, options.grouping[1])
                  ELSE metas
        grouping == IF is_clustered THEN << >> ELSE options.grouping
    IN IF grouping # << >> /\ options.aggregation # << >>
       THEN handle_aggregation_and_grouping(tagged, grouping[1], options.aggregation[1], order)
       ELSE IF grouping # << >>
       THEN handle_grouping(tagged, grouping[1], order)
       ELSE handle_basic(tagged, options)

Reverse(q) == [i \in 1..Len(q) |-> q[Len(q) + 1 - i]]

process_mrange_query(metas, options, reverse, is_clustered, order) ==
    LET result == process_mrange_command(metas, options, is_clustered, order)
    IN IF reverse THEN Reverse(result) ELSE result

\* every string the results are ordered by, in byte order
StringOrder == << "a", "b", "job=a", "job=b", "k1", "k2" >>

Rank(str) == CHOOSE i \in 1..Len(StringOrder) : StringOrder[i] = str

\* Option<String>::cmp: None before every Some
OptionRank(option) == IF option = << >> THEN 0 ELSE Rank(option[1])

\* the sequences that hold every element of S once
Orders(S) == { q \in [1..Cardinality(S) -> S] : \A i, j \in 1..Cardinality(S) : i # j => q[i] # q[j] }

\* slice::sort_by, which is stable
sort_by(q, rank(_)) ==
    LET Before(i, j) == rank(q[i]) < rank(q[j]) \/ (rank(q[i]) = rank(q[j]) /\ i < j)
        perm == CHOOSE p \in Orders(1..Len(q)) :
                    \A i, j \in 1..Len(q) : i < j => Before(p[i], p[j])
    IN [i \in 1..Len(q) |-> q[perm[i]]]

\* group_sharded_series: a BTreeMap by the group's key
group_sharded_series(metas, grouping) ==
    LET KeyOf(meta) == grouping.group_label \o "=" \o meta.group_label_value[1]
        tagged == SelectSeq(metas, LAMBDA meta : meta.group_label_value # << >>)
        keys == { KeyOf(tagged[i]) : i \in 1..Len(tagged) }
        sorted == CHOOSE q \in Orders(keys) :
                      \A i, j \in 1..Len(q) : i < j => Rank(q[i]) < Rank(q[j])
    IN [i \in 1..Len(sorted) |->
          MRangeSeriesResult(sorted[i], << >>,
              group_reduce(
                  MultiSeriesSampleIter(
                      get_sample_iterators(SelectSeq(tagged, LAMBDA meta : KeyOf(meta) = sorted[i]))),
                  grouping.aggregation))]

\* on_mrange_request_done: the responses of the nodes in the order they came
on_mrange_request_done(req, results) ==
    LET all_series == Flatten(results)
    IN IF req.grouping # << >> THEN group_sharded_series(all_series, req.grouping[1])
       ELSE all_series

\* the node that holds the key
Nodes == {1, 2}
ShardOf(key) == IF key = "k1" THEN 1 ELSE 2

\* MRANGE (reverse = FALSE) and MREVRANGE (reverse = TRUE): in a cluster every
\* node answers MultiRangeCommand::exec for the series it holds
mrange_internal(metas, options, reverse, clustered, order, arrival) ==
    IF clustered
    THEN on_mrange_request_done(options,
            [i \in 1..Len(arrival) |->
                process_mrange_query(
                    SelectSeq(metas, LAMBDA meta : ShardOf(meta.source_key) = arrival[i]),
                    options, FALSE, TRUE, << >>)])
    ELSE process_mrange_query(metas, options, reverse, FALSE, order)

\* -------------------------------------------------------- series/mrange.rs
collect_samples(samples, is_reverse) == IF is_reverse THEN Reverse(samples) ELSE samples

\* SampleReducer: the reducer applied at each distinct timestamp of a merged
\* stream
SampleReducer(samples, aggregation) ==
    LET stamps == { samples[i].timestamp : i \in 1..Len(samples) }
        sorted == CHOOSE q \in Orders(stamps) : \A i, j \in 1..Len(q) : i < j => q[i] < q[j]
    IN [i \in 1..Len(sorted) |->
          Sample(sorted[i],
                 Aggregator_finalize(
                     LET at == SelectSeq(samples, LAMBDA s : s.timestamp = sorted[i])
                         Fold[n \in 0..Len(at)] ==
                             IF n = 0 THEN NewAggregator(aggregation)
                             ELSE Aggregator_update(Fold[n - 1], at[n].value)
                     IN Fold[Len(at)]))]

\* create_range_iterator: the range scan of the series, aggregated if asked
create_iter(meta, options) ==
    IF options.aggregation = << >> THEN meta.samples
    ELSE aggregate_samples(meta.samples, 0, QueryEnd, options.aggregation[1]).out

handle_non_grouped(metas, options) ==
    [i \in 1..Len(metas) |->
        MRangeSeriesResult(metas[i].source_key, metas[i].group_label_value,
                           collect_samples(create_iter(metas[i], options), options.is_reverse))]

get_grouped_samples(group, options, grouping_options) ==
    collect_samples(
        SampleReducer(
            MultiSeriesSampleIter([i \in 1..Len(group) |-> create_iter(group[i], options)]),
            grouping_options.aggregation),
        options.is_reverse)

mrange_handle_grouping(metas, options, order) ==
    LET grouped_series_map == group_series_by_label_internal(metas)
    IN [i \in 1..Len(order) |->
          MRangeSeriesResult(options.grouping[1].group_label \o "=" \o order[i], << order[i] >>,
              get_grouped_samples(grouped_series_map[order[i]], options, options.grouping[1]))]

sort_mrange_results(results, is_grouped) ==
    IF is_grouped THEN sort_by(results, LAMBDA r : OptionRank(r.group_label_value))
    ELSE sort_by(results, LAMBDA r : Rank(r.key))

process_mrange(metas, options, is_clustered, order) ==
    LET tagged == IF options.grouping # << >>
                  THEN collect_group_labels(metas, options.grouping[1])
                  ELSE metas
        is_grouped == options.grouping # << >> /\ ~is_clustered
    IN IF is_clustered THEN handle_non_grouped(tagged, options)
       ELSE sort_mrange_results(IF is_grouped THEN mrange_handle_grouping(tagged, options, order)
                                ELSE handle_non_grouped(tagged, options),
                                is_grouped)

\* ---- the series selected, their samples, and the multi-series queries
MaxSeries == 2
MaxSeriesSamples == 2
GroupLabelSets == { {1, 2}, {1, 3} }
Groupings == { << >>, << RangeGroupingOptions("job", "Sum") >>,
               << RangeGroupingOptions("job", "Max") >> }
MRangeAggregations ==
    { << >>, << AggregationOptions("Sum", 2, "Start", [kind |-> "Default", ts |-> 0], FALSE) >> }

MRangeFrame ==
    /\ UNCHANGED <<chunks, total_samples, first_timestamp, last_sample,
                   chunk_size_bytes, retention, policy, panicked>>
    /\ UNCHANGED <<keyspace, TIMESERIES_INDEX, TIMESERIES_ID, INDEX_CURSORS,
                   ctx_lock, inner_lock, pc, marked, dumps, ev>>
    /\ UNCHANGED task_vars

\* one more series matches the filters of the queries
SelectSeries(key, labels) ==
    /\ Len(series_metas) < MaxSeries
    /\ \A i \in 1..Len(series_metas) : series_metas[i].source_key # key
    /\ series_metas' = Append(series_metas, SeriesMeta(key, labels, << >>))
    /\ op' = Op("series_selected", <<>>, 0, 0, <<>>, <<>>, 0)
    /\ MRangeFrame

\* ADD to the i-th series, past its last sample
SampleAdded(i, ts, value) ==
    /\ i \in 1..Len(series_metas)
    /\ Len(series_metas[i].samples) < MaxSeriesSamples
    /\ \A k \in 1..Len(series_metas[i].samples) : series_metas[i].samples[k].timestamp < ts
    /\ series_metas' = [series_metas EXCEPT ![i].samples = Append(@, Sample(ts, value))]
    /\ op' = Op("sample_added", << Sample(ts, value) >>, 0, 0, <<>>, <<>>, 0)
    /\ MRangeFrame

\* the orders the iteration of the groups' hash map can take
GroupOrders(metas, grouping) ==
    IF grouping = << >> THEN { << >> }
    ELSE Orders(GroupValues(collect_group_labels(metas, grouping[1])))

MRangeRequest(options, clustered) == [options |-> options, clustered |-> clustered]

\* MRANGE / MREVRANGE: op holds the request (res) and the answer (out)
MRange(reverse, clustered, grouping, aggregation) ==
    /\ \E order \in GroupOrders(series_metas, grouping), arrival \in Orders(Nodes) :
          \E options \in {MRangeOptions(grouping, aggregation, reverse)} :
             op' = Op("mrange", <<>>, 0, QueryEnd,
                      << MRangeRequest(options, clustered) >>,
                      mrange_internal(series_metas, options, reverse, clustered, order, arrival),
                      0)
    /\ UNCHANGED series_metas
    /\ MRangeFrame

\* series/mrange.rs, process_mrange_query
ProcessMRange(is_reverse, clustered, grouping, aggregation) ==
    /\ \E order \in GroupOrders(series_metas, grouping) :
          \E options \in {MRangeOptions(grouping, aggregation, is_reverse)} :
             op' = Op("process_mrange", <<>>, 0, QueryEnd,
                      << MRangeRequest(options, clustered) >>,
                      process_mrange(series_metas, options, clustered, order), 0)
    /\ UNCHANGED series_metas
    /\ MRangeFrame

InitMRange == InitSeries({ChunkSize}, {0}, {"KeepLast"})

NextMRange ==
    \/ \E key \in Keys, labels \in GroupLabelSets : SelectSeries(key, labels)
    \/ \E i \in 1..MaxSeries, ts \in 1..MaxSeriesSamples :
          SampleAdded(i, ts, MaxSeriesSamples + 1 - ts)
    \/ \E reverse \in BOOLEAN, clustered \in BOOLEAN, grouping \in Groupings,
          aggregation \in MRangeAggregations :
          MRange(reverse, clustered, grouping, aggregation)
    \/ \E is_reverse \in BOOLEAN, clustered \in BOOLEAN, grouping \in Groupings,
          aggregation \in MRangeAggregations :
          ProcessMRange(is_reverse, clustered, grouping, aggregation)

SpecMRange == InitMRange /\ [][NextMRange]_vars

\* the samples a series hands to the grouping: its samples, aggregated if the
\* query asks for it
GroupInput(meta, options) ==
    IF options.aggregation = << >> THEN meta.samples
    ELSE aggregate_samples(meta.samples, 0, QueryEnd, options.aggregation[1]).out

\* the samples of the group of the label value, of every series of the group
GroupSamples(metas, options, value) ==
    Flatten([i \in 1..Len(metas) |->
                IF label_value(metas[i].labels, options.grouping[1].group_label) = << value >>
                THEN GroupInput(metas[i], options) ELSE << >>])

ValuesWith(q, ts) ==
    LET at == SelectSeq(q, LAMBDA s : s.timestamp = ts)
    IN [i \in 1..Len(at) |-> at[i].value]

\* C25: when grouping, the reducer is applied at each distinct timestamp: every
\* sample answered for a group holds the reducer over exactly the samples of
\* the group that carry its timestamp, and every timestamp of the group is
\* answered
C25_GroupReducesPerTimestamp ==
    [][ (op'.name = "mrange" /\ op'.res[1].options.grouping # << >>)
        =>
        LET options == op'.res[1].options
            grouping == options.grouping[1]
        IN \A r \in 1..Len(op'.out) :
              \E value \in GroupValues(collect_group_labels(series_metas, grouping)) :
                 /\ op'.out[r].key = grouping.group_label \o "=" \o value
                 /\ LET input == GroupSamples(series_metas, options, value)
                        answered == op'.out[r].samples
                    IN /\ { answered[k].timestamp : k \in 1..Len(answered) }
                            = { input[k].timestamp : k \in 1..Len(input) }
                       /\ \A k \in 1..Len(answered) :
                             answered[k].value =
                                 Reduced(grouping.aggregation,
                                         ValuesWith(input, answered[k].timestamp))
      ]_vars

\* C26: with is_reverse every series answered holds the samples it holds
\* without is_reverse, in the reverse order, and the series come in the order
\* they come in without is_reverse
C26_ReverseReversesSamples ==
    [][ (op'.name = "mrange" /\ op'.res[1].options.is_reverse)
        =>
        LET request == op'.res[1]
            forward == MRangeOptions(request.options.grouping, request.options.aggregation, FALSE)
        IN \E order \in GroupOrders(series_metas, request.options.grouping),
              arrival \in Orders(Nodes) :
              LET plain == mrange_internal(series_metas, forward, FALSE, request.clustered,
                                           order, arrival)
              IN /\ Len(op'.out) = Len(plain)
                 /\ \A r \in 1..Len(plain) :
                       /\ op'.out[r].key = plain[r].key
                       /\ op'.out[r].samples = Reverse(plain[r].samples)
      ]_vars

\* the rank a result is sorted by: its group's label value when grouping (the
\* key of a group is label=value, which sorts as the value does), its key
\* otherwise
SortRank(result, grouped) ==
    IF grouped /\ result.group_label_value # << >> THEN Rank(result.group_label_value[1])
    ELSE Rank(result.key)

\* C27: the results of a multi-series query come sorted by group-label value
\* when grouping and by series key otherwise, from the command and from
\* process_mrange, local and clustered
C27_ResultsSorted ==
    [][ op'.name \in {"mrange", "process_mrange"}
        =>
        LET grouped == op'.res[1].options.grouping # << >>
        IN \A i, j \in 1..Len(op'.out) :
              i < j => SortRank(op'.out[i], grouped) <= SortRank(op'.out[j], grouped)
      ]_vars

\* the samples of q and the sample, in ascending timestamp order
WithSample(q, sample) == InsertAt(q, FirstGe(q, sample.timestamp), sample)

\* C29: a chunk upsert of a sample whose timestamp the chunk does not hold and
\* that is not later than the chunk's last timestamp leaves the chunk with its
\* previous samples plus the new one, in ascending timestamp order, and
\* returns the new sample count
C29_ChunkUpsertInsertsInOrder ==
    \A i \in 1..Len(chunks), ts \in Timestamps :
        LET c == chunks[i]
            held == { c.samples[k].timestamp : k \in 1..Len(c.samples) }
        IN (~Chunk_is_empty(c) /\ ts \notin held /\ ts <= Chunk_last_timestamp(c))
           => LET r == Chunk_upsert_sample(c, Sample(ts, 1), policy)
              IN /\ r.err = "Ok"
                 /\ r.chunk.samples = WithSample(c.samples, Sample(ts, 1))
                 /\ r.size = Len(c.samples) + 1

\* the stored samples of S that are not before min_allowed = last_timestamp -
\* retention
NotBeforeMinAllowed(S) ==
    SelectSeq(Stored(S), LAMBDA x : x.timestamp >= get_min_timestamp(S))

\* C30: trim removes exactly the samples before min_allowed = last_timestamp -
\* retention (whole chunks that end at or before it, and the older samples of
\* the first remaining chunk) and retains every sample at or after it,
\* whatever first_timestamp holds
C30_TrimRemovesExactlyOlder ==
    [][ (op'.name = "trim" /\ ~panicked')
        =>
        /\ Stored(Series') = NotBeforeMinAllowed(Series)
        /\ op'.deleted = Len(Stored(Series)) - Len(NotBeforeMinAllowed(Series))
      ]_vars

\* ------------------------------------------------------------------- C37
\* C37: upsert_sample never panics. For every timestamp not later than
\* last_timestamp (in a gap between two chunks' ranges and before the first
\* chunk included) an owning chunk is found inside the chunk vector, and the
\* sample is stored or rejected with a result tag.
C37_UpsertNeverPanics ==
    [][ (/\ op'.name = "add"
         /\ last_sample # <<>>
         /\ op'.samples[1].timestamp <= last_timestamp(Series))
        =>
        /\ ~panicked'
        /\ op'.res[1].tag \in {"Ok", "Duplicate", "TooOld", "Error", "CapacityFull"}
      ]_vars

\* ------------------------------------------------------------------- C38
\* the samples of q with the value at timestamp ts replaced by value
WithValueAt(q, ts, value) ==
    [i \in 1..Len(q) |-> IF q[i].timestamp = ts THEN Sample(ts, value) ELSE q[i]]

\* C38: an upsert that collides with an existing timestamp changes only the
\* value stored at that timestamp: every other sample of the chunk and of the
\* series keeps its timestamp and value, and the sample count of the chunk and
\* total_samples of the series are unchanged.
C38_CollisionChangesOnlyValue ==
    [][ (/\ op'.name = "add"
         /\ ~panicked'
         /\ WellFormed(Series)
         /\ op'.res[1].tag = "Ok"
         /\ op'.samples[1].timestamp \in StoredTimestamps(Series))
        =>
        LET t == op'.samples[1].timestamp
            e == ValuesAt(Series, t)[1]
            merged == PolicyValue(policy, e, op'.samples[1].value)
        IN /\ Stored(Series') = WithValueAt(Stored(Series), t, merged)
           /\ total_samples' = total_samples
           /\ \A i \in 1..Len(chunks) :
                 LET c == chunks[i]
                     r == Chunk_upsert_sample(c, op'.samples[1], policy)
                 IN is_timestamp_in_range(c, t)
                    => /\ r.chunk.samples = WithValueAt(c.samples, t, merged)
                       /\ r.size = Chunk_len(c)
      ]_vars

\* ------------------------------------------------------------------- C39
\* the chunk of cs whose timestamp range owns ts: the first chunk holding ts
\* in its range, else the last chunk that starts at or before ts, else the
\* first chunk
RangeOwner(cs, ts) ==
    LET holding == { i \in 1..Len(cs) : is_timestamp_in_range(cs[i], ts) }
        started == { i \in 1..Len(cs) : Chunk_first_timestamp(cs[i]) <= ts }
    IN IF holding # {} THEN CHOOSE i \in holding : \A j \in holding : i <= j
       ELSE IF started # {} THEN CHOOSE i \in started : \A j \in started : j <= i
       ELSE 1

\* C39: during merge_samples every group of input samples is merged into the
\* chunk whose timestamp range owns those samples, also when a pre-emptive
\* split made while grouping inserts a chunk and shifts the indices of the
\* chunks recorded for other groups: every accepted sample ends up in one
\* chunk only, and the chunks stay in timestamp order.
C39_GroupsMergedIntoOwningChunks ==
    [][ (/\ op'.name = "merge_samples"
         /\ ~panicked'
         /\ WellFormed(Series)
         /\ DistinctTimestamps(op'.samples))
        =>
        /\ \A i \in 1..Len(op'.samples) :
              op'.res[i].tag = "Ok"
              => LET ts == op'.samples[i].timestamp
                     at == { k \in 1..Len(chunks') :
                               \E j \in 1..Chunk_len(chunks'[k]) :
                                   chunks'[k].samples[j].timestamp = ts }
                 IN at = {RangeOwner(chunks', ts)}
        /\ \A k \in 1..(Len(chunks') - 1) :
              Chunk_is_empty(chunks'[k]) \/ Chunk_is_empty(chunks'[k + 1])
              \/ Chunk_last_timestamp(chunks'[k]) < Chunk_first_timestamp(chunks'[k + 1])
      ]_vars

\* ------------------------------------------------------------------- C31
\* ---- the batched stale sweep: series of three labels are created in DB 0,
\* a swapdb makes them the series of DB 1, deletes there mark their ids stale
\* and the cron task sweeps the index of DB 1 batch by batch
SweepLabelSets == { {1, 2, 7}, {1, 3, 8} }

SweepIds == 2

InitSweep == InitSeries({ChunkSize}, {0}, {"KeepLast"})

NextSweep ==
    \/ \E key \in Keys, labels \in SweepLabelSets :
          CreateSeries(0, key, labels, SweepIds, TRUE)
    \/ SwapDb(0, 1, TRUE)
    \/ \E db \in DBs, key \in Keys : DeleteKey(db, key, TRUE)
    \/ \E db \in DBs : RemoveStaleSeries(db, TRUE)
    \/ \E db \in DBs : RemoveStaleIds(db, TRUE)

SpecSweep == InitSweep /\ [][NextSweep]_vars

\* the ids some bitmap of label_index holds
IndexedIds(P) == UNION { P.label_index[k] : k \in DOMAIN P.label_index }

\* C31: the batched stale sweep clears stale_ids only when the whole
\* label_index has been swept: at the moment a sweep step clears stale_ids, no
\* bitmap of label_index holds an id that was in stale_ids, whatever the size
\* of the index, the batch and the cursor, and also when ids are marked stale
\* between two batches of one sweep.
C31_StaleClearedOnlyWhenSwept ==
    [][ \A db \in DBs :
          (/\ ev'.name \in {"remove_stale_series", "remove_stale_ids"}
           /\ ev'.db = db
           /\ db \in DOMAIN TIMESERIES_INDEX
           /\ TIMESERIES_INDEX[db].stale_ids # {}
           /\ TIMESERIES_INDEX'[db].stale_ids = {})
          => IndexedIds(TIMESERIES_INDEX'[db]) \cap TIMESERIES_INDEX[db].stale_ids = {}
      ]_vars

\* ------------------------------------------------- series/index/querier.rs
\* get_timeseries with must_exist = false: the series a key of the DB holds,
\* NoSeries for None
get_timeseries(ks, db, key) == ks[db][key]

\* collect_series_from_postings without a date range: the ids without a key
\* are filtered out, the keys that hold no series are skipped; nothing is
\* written to the postings. The result is the set of keys found.
collect_series_from_postings(ks, db, P, ids) ==
    { P.id_to_key[id] :
        id \in { i \in ids \cap DOMAIN P.id_to_key :
                   get_timeseries(ks, db, P.id_to_key[i]) # NoSeries } }

series_by_selectors(ks, db, P, selectors) ==
    IF selectors = <<>> THEN {}
    ELSE collect_series_from_postings(ks, db, P, postings_for_selectors(P, selectors))

\* the loop of TimeSeriesIndex::keys_for_selectors for a client that may
\* read every key: [keys, missing_keys]
keys_for_selectors(P, filters) ==
    LET ids == postings_for_selectors(P, filters)
    IN [keys |-> { P.id_to_key[id] : id \in ids \cap DOMAIN P.id_to_key },
        missing_keys |-> ids \ DOMAIN P.id_to_key]

\* the ids a query surfaces that resolve to no live series: no key is known
\* for the id, or the key holds no series
Unresolved(ks, db, P, selectors) ==
    { id \in postings_for_selectors(P, selectors) :
        \/ id \notin DOMAIN P.id_to_key
        \/ get_timeseries(ks, db, P.id_to_key[id]) = NoSeries }

\* what a step of a query leaves alone
QueryFrame ==
    /\ UNCHANGED <<chunks, total_samples, first_timestamp, last_sample,
                   chunk_size_bytes, retention, policy, series_metas>>
    /\ UNCHANGED <<keyspace, TIMESERIES_ID, INDEX_CURSORS, ctx_lock, marked, dumps, ev>>
    /\ UNCHANGED cron_vars

\* a command of the host that selects series: series_by_selectors on the
\* index of the DB, which get_db_index creates when the DB has none
SeriesBySelectors(db, selectors) ==
    /\ pc[Host] = Idle
    /\ LET map == get_timeseries_index_for_db(TIMESERIES_INDEX, db)
       IN /\ TIMESERIES_INDEX' = map
          /\ op' = Op("series_by_selectors", <<>>, db, 0, selectors,
                      series_by_selectors(keyspace, db, map[db], selectors), 0)
    /\ UNCHANGED <<pc, locals, inner_lock, panicked>>
    /\ QueryFrame

\* keys_for_selectors up to the end of its loop: the read guard `postings`
\* is taken and stays alive to the end of the function
KeysForSelectorsRead(db, selectors) ==
    /\ pc[Host] = Idle
    /\ inner_lock[db] = "none"
    /\ LET map == get_timeseries_index_for_db(TIMESERIES_INDEX, db)
           found == keys_for_selectors(map[db], selectors)
       IN /\ TIMESERIES_INDEX' = map
          /\ locals' = [locals EXCEPT ![Host].missing_keys = found.missing_keys]
          /\ op' = Op("keys_for_selectors", <<>>, db, 0, selectors, found.keys, 0)
    /\ pc' = [pc EXCEPT ![Host] = Position("keys_read", db, db)]
    /\ UNCHANGED <<inner_lock, panicked>>
    /\ QueryFrame

\* no key is missing: Ok(keys), the read guard is dropped
KeysForSelectorsReturn ==
    /\ pc[Host].at = "keys_read"
    /\ locals[Host].missing_keys = {}
    /\ pc' = [pc EXCEPT ![Host] = Idle]
    /\ UNCHANGED <<TIMESERIES_INDEX, locals, op, inner_lock, panicked>>
    /\ QueryFrame

\* some key is missing: self.inner.write() is called by the thread that
\* holds the read guard. The lock is never granted to it; the call blocks for
\* ever or panics, as the lock of the platform decides.
KeysForSelectorsWrite ==
    /\ pc[Host].at = "keys_read"
    /\ locals[Host].missing_keys # {}
    /\ \E blocks \in BOOLEAN :
          IF blocks
          THEN /\ pc' = [pc EXCEPT ![Host].at = "keys_write_wait"]
               /\ UNCHANGED <<locals, panicked>>
          ELSE /\ pc' = [pc EXCEPT ![Host] = Idle]
               /\ locals' = [locals EXCEPT ![Host] = NoLocals]
               /\ panicked' = TRUE
    /\ UNCHANGED <<TIMESERIES_INDEX, op, inner_lock>>
    /\ QueryFrame

\* ---- queries on an index that creates, swaps, deletes and sweeps have
\* left: the commands run one at a time on the host
QueryIds == 2

QuerySelectors == { << And(<< Equal(k) >>) >> : k \in {1, 3} }

InitQuery == InitSeries({ChunkSize}, {0}, {"KeepLast"})

NextQuery ==
    \/ /\ pc[Host] = Idle
       /\ ~panicked
       /\ \/ \E key \in Keys, labels \in SweepLabelSets :
                CreateSeries(0, key, labels, QueryIds, FALSE)
          \/ SwapDb(0, 1, FALSE)
          \/ \E key \in Keys : DeleteKey(1, key, FALSE)
          \/ RemoveStaleSeries(1, FALSE)
    \/ /\ ~panicked
       /\ \E db \in DBs, selectors \in QuerySelectors :
             \/ SeriesBySelectors(db, selectors)
             \/ KeysForSelectorsRead(db, selectors)
    \/ KeysForSelectorsReturn
    \/ KeysForSelectorsWrite

SpecQuery == InitQuery /\ [][NextQuery]_vars

\* C32: when a query surfaces an id that resolves to no live series (no key
\* is known for the id, or the key holds no series any more), the id is put
\* into stale_ids and taken out of all_postings and id_to_key, on every query
\* path that resolves ids to series.
C32_UnresolvedIdsMarkedStale ==
    [][ (op'.name \in {"series_by_selectors", "keys_for_selectors"} /\ op' # op)
        =>
        LET db == op'.from
            before == get_timeseries_index_for_db(TIMESERIES_INDEX, db)[db]
            after == TIMESERIES_INDEX'[db]
        IN \A id \in Unresolved(keyspace, db, before, op'.res) :
              /\ id \in after.stale_ids
              /\ id \notin after.all_postings
              /\ id \notin DOMAIN after.id_to_key
      ]_vars

\* C36: a call of keys_for_selectors always ends, also when some matched id
\* has no key and has to be marked stale: the call never waits for the write
\* mode of the index's readers-writer lock while it holds the lock in read
\* mode.
C36_NoWriteWaitUnderReadGuard ==
    \A t \in Threads \cup {Host} : pc[t].at # "keys_write_wait"

\* ------------------------------------------- series/background_tasks.rs
\* the batch sizes of the retention trim and of the index optimizer, and the
\* number of DBs one run of the retention trim visits at most
SeriesTrimBatch == 1
OptimizeBatch == 1
MAX_TRIM_TURNS == 5

Handlers ==
    {"process_trim", "process_remove_stale_series", "optimize_indices", "trim_unused_dbs"}

\* a handler the dispatch of tick `ticks` has given to the worker pool
Spawned(task, ticks) == [task |-> task, ticks |-> ticks]

RECURSIVE SortedSeq(_)
SortedSeq(S) ==
    IF S = {} THEN <<>>
    ELSE LET least == CHOOSE x \in S : \A y \in S : x <= y
         IN <<least>> \o SortedSeq(S \ {least})

get_used_dbs(map) == SortedSeq(DOMAIN map)

\* next_db: the DB after current in the order of the used DBs, the first one
\* after the last, 0 when no DB is used; the result is stored in CURRENT_DB
next_db(map, current) ==
    LET used_dbs == get_used_dbs(map)
        later == SelectSeq(used_dbs, LAMBDA d : d > current)
    IN IF later # <<>> THEN later[1]
       ELSE IF used_dbs # <<>> THEN used_dbs[1] ELSE 0

\* the predicate of the retention trim
NeedsTrim(series) == series.retention # 0 /\ series.total_samples # 0

\* fetch_series_batch: up to count ids of all_postings from start_id on; an
\* id without a key is skipped, an id whose key holds no series is marked
\* stale, the series that satisfy the predicate are returned: [result, map]
fetch_series_batch(ks, map, db, start_id, count) ==
    LET with_index == get_timeseries_index_for_db(map, db)
        P == with_index[db]
        from_start == SortedSeq({ i \in P.all_postings : i >= start_id })
        buf == SubSeq(from_start, 1, Min2(count, Len(from_start)))
        keyed == SelectSeq(buf, LAMBDA id : id \in DOMAIN P.id_to_key)
        stale_ids == { keyed[i] : i \in { j \in 1..Len(keyed) :
                                            ks[db][P.id_to_key[keyed[j]]] = NoSeries } }
        found == SelectSeq(keyed, LAMBDA id : /\ ks[db][P.id_to_key[id]] # NoSeries
                                              /\ NeedsTrim(ks[db][P.id_to_key[id]]))
        RECURSIVE mark_all(_, _)
        mark_all(Q, ids) ==
            IF ids = {} THEN Q
            ELSE LET id == CHOOSE i \in ids : TRUE
                 IN mark_all(mark_id_as_stale(Q, id), ids \ {id})
    IN [result |-> [i \in 1..Len(found) |-> ks[db][P.id_to_key[found[i]]]],
        stale_ids |-> stale_ids,
        map |-> [with_index EXCEPT ![db] = mark_all(@, stale_ids)]]

\* trim_series on the state st of a run of the retention trim; st.processed
\* grows by the number of series trimmed
trim_series(ks, st, db) ==
    Bind(fetch_series_batch(ks, st.map, db, st.cursors[db] + 1, SeriesTrimBatch),
         LAMBDA fetched :
            LET batch == fetched.result
                seen == [st EXCEPT !.map = fetched.map,
                                   !.marked[db] = @ \cup fetched.stale_ids]
            IN IF batch = <<>>
               THEN [seen EXCEPT !.cursors[db] = 0]
               ELSE [seen EXCEPT !.cursors[db] = batch[Len(batch)].id,
                                 !.processed = @ + Len(batch),
                                 !.trimmed = @ \cup { batch[i].id : i \in 1..Len(batch) }])

\* the loop of process_trim from turn `turn` on
RECURSIVE trim_turns(_, _, _, _, _, _)
trim_turns(ks, st, db, start_db, turn, shutting_down) ==
    IF turn = MAX_TRIM_TURNS \/ shutting_down THEN st
    ELSE Bind(trim_series(ks, st, db),
              LAMBDA after :
                 IF after.processed >= SeriesTrimBatch THEN after
                 ELSE Bind(next_db(after.map, after.current),
                           LAMBDA next :
                              IF next = start_db THEN [after EXCEPT !.current = next]
                              ELSE trim_turns(ks, [after EXCEPT !.current = next], next,
                                              start_db, turn + 1, shutting_down)))

\* process_trim: [map, cursors, current, marked, processed, trimmed]
process_trim(ks, map, cursors, current, stale, shutting_down) ==
    Bind(next_db(map, current),
         LAMBDA start_db :
            trim_turns(ks, [map |-> map, cursors |-> cursors, current |-> start_db,
                            marked |-> stale, processed |-> 0, trimmed |-> {}],
                       start_db, start_db, 0, shutting_down))

\* process_remove_stale_series: remove_stale_series_internal on every used
\* DB, [map, cursors]
RECURSIVE process_remove_stale_series(_, _, _)
process_remove_stale_series(map, cursors, dbs) ==
    IF dbs = {} THEN [map |-> map, cursors |-> cursors]
    ELSE LET db == CHOOSE d \in dbs : TRUE
             r == remove_stale_ids(map[db], cursors[db], SweepBatch)
         IN process_remove_stale_series([map EXCEPT ![db] = r.p],
                                        [cursors EXCEPT ![db] = r.next_key], dbs \ {db})

\* Postings::optimize_postings: the empty bitmaps met are deleted, count
\* bitmaps are optimized and the key the batch stopped at comes back
optimize_postings(P, start_prefix, count) ==
    LET keys == prefix_mut(P, start_prefix)
        full == SelectSeq(keys, LAMBDA k : P.label_index[k] # {})
        stopped == Len(full) > count
        next_key == IF stopped THEN full[count + 1] ELSE NoKey
        last == IF stopped THEN CHOOSE i \in 1..Len(keys) : keys[i] = next_key
                ELSE Len(keys) + 1
        keys_to_delete == { keys[i] : i \in { j \in 1..Len(keys) :
                                                j < last /\ P.label_index[keys[j]] = {} } }
    IN [p |-> [P EXCEPT !.label_index =
                           [k \in DOMAIN P.label_index \ keys_to_delete |-> P.label_index[k]]],
        next_key |-> next_key]

\* optimize_indices: optimize_incremental on every used DB, [map, cursors]
RECURSIVE optimize_indices(_, _, _)
optimize_indices(map, cursors, dbs) ==
    IF dbs = {} THEN [map |-> map, cursors |-> cursors]
    ELSE LET db == CHOOSE d \in dbs : TRUE
             r == optimize_postings(map[db], cursors[db], OptimizeBatch)
         IN optimize_indices([map EXCEPT ![db] = r.p],
                             [cursors EXCEPT ![db] = r.next_key], dbs \ {db})

\* TimeSeriesIndex::is_empty: count() is the number of keys of id_to_key
TimeSeriesIndex_is_empty(P) == Cardinality(DOMAIN P.id_to_key) = 0

\* trim_unused_dbs: retain the DBs whose index is not empty
trim_unused_dbs(map) ==
    [d \in { x \in DOMAIN map : ~TimeSeriesIndex_is_empty(map[x]) } |-> map[d]]

\* what a step of the cron hook or of a task leaves alone
TaskFrame ==
    /\ UNCHANGED <<chunks, total_samples, first_timestamp, last_sample,
                   chunk_size_bytes, retention, policy, panicked, series_metas>>
    /\ UNCHANGED <<keyspace, TIMESERIES_ID, ctx_lock, inner_lock, pc, dumps, ev>>
    /\ UNCHANGED <<CRON_INTERVAL_MS, DISPATCH_MAP>>

\* cron_event_handler, run by the host between two commands. The model stops
\* the ticks at limit, keeps the counter modulo cycle and lets the hook run
\* when the pool holds at most max_spawned handlers.
CronTick(limit, cycle, max_spawned) ==
    /\ pc[Host] = Idle
    /\ ctx_lock = "none"
    /\ CRON_TICKS < limit
    /\ Cardinality(spawned) <= max_spawned
    /\ IF SHUTTING_DOWN
       THEN UNCHANGED <<CRON_TICKS, spawned, op>>
       ELSE \E tasks \in { dispatch_tasks(DISPATCH_MAP, CRON_TICKS) } :
               /\ CRON_TICKS' = (CRON_TICKS + 1) % cycle
               /\ spawned' = spawned \cup { Spawned(task, CRON_TICKS) : task \in tasks }
               /\ op' = Op("cron_event_handler", <<>>, CRON_TICKS, 0, <<>>, tasks, 0)
    /\ UNCHANGED <<TIMESERIES_INDEX, INDEX_CURSORS, SERIES_TRIM_CURSORS, OPTIMIZE_CURSORS,
                   CURRENT_DB, SHUTTING_DOWN, marked, locals>>
    /\ TaskFrame

\* shutdown_event_handler
ShutdownEvent ==
    /\ pc[Host] = Idle
    /\ ~SHUTTING_DOWN
    /\ SHUTTING_DOWN' = TRUE
    /\ op' = Op("shutdown_event_handler", <<>>, 0, 0, <<>>, {}, 0)
    /\ UNCHANGED <<TIMESERIES_INDEX, INDEX_CURSORS, SERIES_TRIM_CURSORS, OPTIMIZE_CURSORS,
                   CURRENT_DB, CRON_TICKS, spawned, marked, locals>>
    /\ TaskFrame

\* a worker runs process_trim; it takes the lock of the host for every DB it
\* visits
ProcessTrim ==
    \E s \in { x \in spawned : x.task = "process_trim" } :
       /\ SHUTTING_DOWN \/ ctx_lock = "none"
       /\ spawned' = spawned \ {s}
       /\ \E r \in { process_trim(keyspace, TIMESERIES_INDEX, SERIES_TRIM_CURSORS, CURRENT_DB,
                                  marked, SHUTTING_DOWN) } :
             /\ TIMESERIES_INDEX' = r.map
             /\ SERIES_TRIM_CURSORS' = r.cursors
             /\ CURRENT_DB' = r.current
             /\ marked' = r.marked
             /\ op' = Op("process_trim", <<>>, s.ticks, 0, <<>>, r.trimmed, 0)
       /\ UNCHANGED <<INDEX_CURSORS, OPTIMIZE_CURSORS, CRON_TICKS, SHUTTING_DOWN, locals>>
       /\ TaskFrame

\* a worker runs process_remove_stale_series
ProcessRemoveStaleSeries ==
    \E s \in { x \in spawned : x.task = "process_remove_stale_series" } :
       /\ spawned' = spawned \ {s}
       /\ IF SHUTTING_DOWN
          THEN UNCHANGED <<TIMESERIES_INDEX, INDEX_CURSORS>>
          ELSE \E r \in { process_remove_stale_series(TIMESERIES_INDEX, INDEX_CURSORS,
                                                      DOMAIN TIMESERIES_INDEX) } :
                  /\ TIMESERIES_INDEX' = r.map
                  /\ INDEX_CURSORS' = r.cursors
       /\ op' = Op("process_remove_stale_series", <<>>, s.ticks, 0, <<>>, {}, 0)
       /\ UNCHANGED <<SERIES_TRIM_CURSORS, OPTIMIZE_CURSORS, CURRENT_DB, CRON_TICKS,
                      SHUTTING_DOWN, marked, locals>>
       /\ TaskFrame

\* a worker runs optimize_indices
OptimizeIndices ==
    \E s \in { x \in spawned : x.task = "optimize_indices" } :
       /\ spawned' = spawned \ {s}
       /\ IF SHUTTING_DOWN
          THEN UNCHANGED <<TIMESERIES_INDEX, OPTIMIZE_CURSORS>>
          ELSE \E r \in { optimize_indices(TIMESERIES_INDEX, OPTIMIZE_CURSORS,
                                           DOMAIN TIMESERIES_INDEX) } :
                  /\ TIMESERIES_INDEX' = r.map
                  /\ OPTIMIZE_CURSORS' = r.cursors
       /\ op' = Op("optimize_indices", <<>>, s.ticks, 0, <<>>, {}, 0)
       /\ UNCHANGED <<INDEX_CURSORS, SERIES_TRIM_CURSORS, CURRENT_DB, CRON_TICKS,
                      SHUTTING_DOWN, marked, locals>>
       /\ TaskFrame

\* a worker runs trim_unused_dbs; a thread that holds a reference to an index
\* taken out of the map is left with an index no DB has
TrimUnusedDbs ==
    \E s \in { x \in spawned : x.task = "trim_unused_dbs" } :
       /\ spawned' = spawned \ {s}
       /\ \E map \in { trim_unused_dbs(TIMESERIES_INDEX) } :
             /\ TIMESERIES_INDEX' = map
             /\ locals' = [t \in DOMAIN locals |->
                             IF locals[t].index = "of_db" /\ locals[t].ts._db \notin DOMAIN map
                             THEN [locals[t] EXCEPT !.index = "of_no_db",
                                                    !.detached =
                                                        TIMESERIES_INDEX[locals[t].ts._db]]
                             ELSE locals[t]]
             /\ op' = Op("trim_unused_dbs", <<>>, s.ticks, 0, <<>>,
                         DOMAIN TIMESERIES_INDEX \ DOMAIN map, 0)
       /\ UNCHANGED <<INDEX_CURSORS, SERIES_TRIM_CURSORS, OPTIMIZE_CURSORS, CURRENT_DB,
                      CRON_TICKS, SHUTTING_DOWN, marked>>
       /\ TaskFrame

\* ---- the cron hook on a server without series, for the hz a server can
\* be configured with (1 to 500): the handlers run on the empty index
MaxTicks == 30
MaxSpawned == 4
Hzs == {1, 2, 10, 500}

InitCron == InitSeriesHz({ChunkSize}, {0}, {"KeepLast"}, Hzs)

NextCron ==
    \/ CronTick(MaxTicks, MaxTicks + 1, MaxSpawned)
    \/ ShutdownEvent
    \/ ProcessTrim
    \/ ProcessRemoveStaleSeries
    \/ OptimizeIndices
    \/ TrimUnusedDbs

SpecCron == InitCron /\ [][NextCron]_vars

\* the interval a handler is registered with, in milliseconds
TaskInterval ==
    [task \in Handlers |->
       CASE task = "process_trim" -> RETENTION_CLEANUP_INTERVAL
         [] task = "process_remove_stale_series" -> STALE_ID_CLEANUP_INTERVAL
         [] task = "optimize_indices" -> INDEX_OPTIMIZE_INTERVAL
         [] task = "trim_unused_dbs" -> DB_CLEANUP_INTERVAL]

\* the handlers registered under k
RegisteredUnder(k) ==
    IF k \in DOMAIN DISPATCH_MAP
    THEN { DISPATCH_MAP[k][i] : i \in 1..Len(DISPATCH_MAP[k]) } ELSE {}

\* C33: on the cron tick n the handlers handed to the worker pool are those
\* registered under a key k = max(1, task_interval / cron_interval) that
\* divides n, and no other; the cron interval of every hz a server can have is
\* not 0, so that every k is defined and at least 1.
C33_HandlersOfDividingKeysRun ==
    [][ op'.name = "cron_event_handler" /\ CRON_TICKS' # CRON_TICKS
        =>
        LET n == CRON_TICKS
            key == [task \in Handlers |->
                      IF CRON_INTERVAL_MS = 0 THEN 0
                      ELSE Max2(1, TaskInterval[task] \div CRON_INTERVAL_MS)]
        IN /\ CRON_INTERVAL_MS # 0
           /\ \A task \in Handlers : key[task] >= 1 /\ task \in RegisteredUnder(key[task])
           /\ \A k \in DOMAIN DISPATCH_MAP : k >= 1
           /\ \A task \in Handlers :
                 /\ n % key[task] = 0 => /\ task \in op'.out
                                         /\ Spawned(task, n) \in spawned'
                 /\ n % key[task] # 0 => /\ task \notin op'.out
                                         /\ Spawned(task, n) \notin spawned'
      ]_vars

\* a tick after the first one that runs some handlers and leaves others out
C33_SomeHandlersDispatched ==
    /\ op.name = "cron_event_handler"
    /\ op.from > 0
    /\ op.out # {}
    /\ op.out # Handlers

\* ---- the tasks next to the commands of the host: a CREATE is run in two
\* steps, up to the reference to the index of its DB and from there on
\* create_and_store_internal and create_series up to `guard.deref()`: the key
\* is free, the id is taken and the index of the DB is looked up or inserted
HostCreateIndex(db, key, labels, limit) ==
    /\ pc[Host] = Idle
    /\ ctx_lock = "none"
    /\ keyspace[db][key] = NoSeries
    /\ TIMESERIES_ID <= limit
    /\ LET id == IF TIMESERIES_ID = 0 THEN 1 ELSE TIMESERIES_ID
       IN /\ TIMESERIES_ID' = id + 1
          /\ locals' = [locals EXCEPT ![Host] =
                           [NoLocals EXCEPT !.index = "of_db", !.key = key,
                                            !.ts = TimeSeries(id, labels, db)]]
    /\ TIMESERIES_INDEX' = get_timeseries_index_for_db(TIMESERIES_INDEX, db)
    /\ ctx_lock' = Host
    /\ pc' = [pc EXCEPT ![Host] = Position("create_series", db, db)]
    /\ UNCHANGED <<chunks, total_samples, first_timestamp, last_sample,
                   chunk_size_bytes, retention, policy, panicked, op, series_metas>>
    /\ UNCHANGED <<keyspace, INDEX_CURSORS, inner_lock, marked, dumps, ev>>
    /\ UNCHANGED cron_vars

\* the rest of create_series and of create_and_store_internal: the series is
\* indexed through the reference and stored at its key
HostCreateStore ==
    /\ pc[Host].at = "create_series"
    /\ LET ts == locals[Host].ts
           key == locals[Host].key
           db == ts._db
           in_map == locals[Host].index = "of_db"
           index == IF in_map THEN TIMESERIES_INDEX[db] ELSE locals[Host].detached
           duplicate == /\ HasMetricName(ts.labels)
                        /\ posting_id_by_labels(index, ts.labels) # NoId
       IN IF duplicate
          THEN /\ UNCHANGED <<keyspace, TIMESERIES_INDEX, marked>>
               /\ ev' = [Ev("create", db, key, ts.id, "DUPLICATE_SERIES")
                            EXCEPT !.labels = ts.labels]
          ELSE /\ TIMESERIES_INDEX' =
                     IF in_map
                     THEN [TIMESERIES_INDEX EXCEPT ![db] = index_timeseries(@, ts, key)]
                     ELSE TIMESERIES_INDEX
               /\ keyspace' = [keyspace EXCEPT ![db][key] = ts]
               /\ marked' = [marked EXCEPT ![db] = @ \ {ts.id}]
               /\ ev' = [Ev("create", db, key, ts.id, "OK") EXCEPT !.labels = ts.labels]
    /\ locals' = [locals EXCEPT ![Host] = NoLocals]
    /\ ctx_lock' = "none"
    /\ pc' = [pc EXCEPT ![Host] = Idle]
    /\ UNCHANGED <<chunks, total_samples, first_timestamp, last_sample,
                   chunk_size_bytes, retention, policy, panicked, op, series_metas>>
    /\ UNCHANGED <<TIMESERIES_ID, INDEX_CURSORS, inner_lock, dumps>>
    /\ UNCHANGED cron_vars

TaskIds == 2
TaskTicks == 1
TaskLabelSets == { {1, 2} }

InitTasks == InitSeriesHz({ChunkSize}, {0}, {"KeepLast"}, {1})

NextTasks ==
    \/ \E db \in DBs, key \in Keys, labels \in TaskLabelSets :
          HostCreateIndex(db, key, labels, TaskIds)
    \/ HostCreateStore
    \/ /\ pc[Host] = Idle
       /\ \E db \in DBs, key \in Keys : DeleteKey(db, key, FALSE)
    \/ CronTick(TaskTicks, TaskTicks + 1, MaxSpawned)
    \/ ShutdownEvent
    \/ ProcessTrim
    \/ ProcessRemoveStaleSeries
    \/ OptimizeIndices
    \/ TrimUnusedDbs

SpecTasks == InitTasks /\ [][NextTasks]_vars

\* C34: every background task (retention trim, stale sweep, index optimize,
\* DB prune) checks the shutdown flag on entry: a task that starts when the
\* flag is set returns without modifying any index, cursor or series.
C34_NoTaskWorksAfterShutdown ==
    [][ (SHUTTING_DOWN /\ spawned' # spawned /\ spawned' \subseteq spawned)
        => UNCHANGED <<TIMESERIES_INDEX, INDEX_CURSORS, SERIES_TRIM_CURSORS,
                       OPTIMIZE_CURSORS, keyspace>>
      ]_vars

\* C40: the DB prune takes a DB's index out of the map only if that index is
\* empty, and a series indexed by a command that obtained the index of its DB
\* just before the prune ran is in the index of its DB when the command ends.
C40_PruneKeepsLiveSeries ==
    [][ /\ (op'.name = "trim_unused_dbs" /\ spawned' # spawned)
           => \A db \in DOMAIN TIMESERIES_INDEX \ DOMAIN TIMESERIES_INDEX' :
                 TimeSeriesIndex_is_empty(TIMESERIES_INDEX[db])
        /\ (pc[Host].at = "create_series" /\ pc'[Host] = Idle /\ ev'.res = "OK")
           => /\ ev'.db \in DOMAIN TIMESERIES_INDEX'
              /\ ev'.id \in DOMAIN TIMESERIES_INDEX'[ev'.db].id_to_key
              /\ TIMESERIES_INDEX'[ev'.db].id_to_key[ev'.id] = ev'.key
      ]_vars

\* ---- the walk of the retention trim over the series of DB 0: the series
\* are created, with or without retention, and filled before the first cron
\* tick; from then on the cron hook and the workers run
\* ADD key ts value on a key that holds a series, as far as the number of
\* samples goes
AddToKey(db, key, limit) ==
    /\ keyspace[db][key] # NoSeries
    /\ keyspace[db][key].total_samples < limit
    /\ keyspace' = [keyspace EXCEPT ![db][key].total_samples = @ + 1]
    /\ ev' = Observed(FALSE, Ev("add", db, key, keyspace[db][key].id, "OK"))
    /\ UNCHANGED <<TIMESERIES_INDEX, TIMESERIES_ID, INDEX_CURSORS, marked, dumps>>
    /\ HostFrame

WalkIds == 2
WalkSamples == 1
WalkRetentions == {0, Retention}
WalkLabelSets == { {2} }

\* the largest key of the dispatch map at hz 1; every other key divides it,
\* so that a tick counter kept modulo it dispatches as the u64 counter does
TickCycle == DB_CLEANUP_INTERVAL \div 1000

InitWalk == InitSeriesHz({ChunkSize}, {0}, {"KeepLast"}, {1})

NextWalk ==
    \/ /\ CRON_TICKS = 0
       /\ op = NoOp
       /\ \/ \E key \in Keys, labels \in WalkLabelSets, r \in WalkRetentions :
                CreateSeriesWithOptions(0, key, labels, r, WalkIds, FALSE)
          \/ \E key \in Keys : AddToKey(0, key, WalkSamples)
    \/ CronTick(TickCycle, TickCycle, 0)
    \/ ProcessTrim
    \/ ProcessRemoveStaleSeries
    \/ OptimizeIndices
    \/ TrimUnusedDbs

SpecWalk == InitWalk /\ [][NextWalk]_vars

\* the cron hook goes on being called and the pool runs what it is given
SpecWalkFair ==
    /\ SpecWalk
    /\ WF_vars(CronTick(TickCycle, TickCycle, 0))
    /\ WF_vars(ProcessTrim)
    /\ WF_vars(ProcessRemoveStaleSeries)
    /\ WF_vars(OptimizeIndices)
    /\ WF_vars(TrimUnusedDbs)

\* C35: the retention trim walks the series of a DB in id order from the
\* cursor of the DB and wraps at the end, so that under repeated runs every
\* series that holds samples and has a retention is trimmed in the end,
\* wherever the series without retention or without samples are.
C35_EverySeriesEventuallyTrimmed ==
    \A key \in Keys :
       (op.name = "cron_event_handler" /\ NeedsTrim(keyspace[0][key]))
       ~> (op.name = "process_trim" /\ keyspace[0][key].id \in op.out)

====
